---- MODULE Spec2Model ----
(***************************************************************************)
(* Notification scheduling and dedup core of the GPRO qualification        *)
(* reminder bot: the tick loop of notifications/checker.py, the senders of *)
(* notifications/sender.py, the user records of notifications/user_data.py *)
(* and the calendar queries of gpro_calendar.py.                           *)
(*                                                                         *)
(* Time is counted in whole seconds (datetime differences taken with       *)
(* total_seconds()).  `now` is the value datetime.utcnow() returns at the  *)
(* head of the tick; a tick's own duration (delivery, probe, weather       *)
(* fetch) is taken as zero, so the next tick is at now + next_interval.    *)
(***************************************************************************)
EXTENDS Integers, Sequences, FiniteSets, TLC

\* ------------------------------------------------------------------------
\* Program constants
\* ------------------------------------------------------------------------
SecondsPerHour == 3600
SecondsPerMinute == 60
SecondsPerDay == 86400

CHECK_INTERVAL_NORMAL_SECONDS == 300
CHECK_INTERVAL_FAST_SECONDS == 60
RACE_PROXIMITY_THRESHOLD_MINUTES == 10
RACE_LIVE_NOTIFICATION_BEFORE_MINUTES == 1
RACE_LIVE_NOTIFICATION_AFTER_MINUTES == 5
NOTIFICATION_HISTORY_RETENTION_DAYS == 30
API_CHECK_START_HOURS == 2
\* API_CHECK_END_HOURS = 3.5, in seconds
API_CHECK_END_SECONDS == 12600
API_CHECK_INTERVAL_MINUTES == 10
FALLBACK_TOLERANCE_MINUTES == 15
CUSTOM_NOTIF_TOLERANCE_MIN == 5
\* QUALI_CLOSES_BEFORE_RACE_HOURS = 1.5, in seconds
QUALI_CLOSES_BEFORE_RACE_SECONDS == 5400
\* the office probe matches a race whose quali_close is within one hour
PROBE_MATCH_SECONDS == 3600
\* get_races_closing_soon(48) and get_races_closing_soon(72)
CLOSING_HORIZON_HOURS == 48
CUSTOM_HORIZON_HOURS == 72

\* (hours_before, tolerance_minutes, label), hours_before kept in seconds
NOTIFICATION_WINDOWS ==
    << [target |-> 48 * SecondsPerHour, tol |-> 6 * SecondsPerMinute, label |-> "48h"],
       [target |-> 24 * SecondsPerHour, tol |-> 6 * SecondsPerMinute, label |-> "24h"],
       [target |-> 2 * SecondsPerHour,  tol |-> 5 * SecondsPerMinute, label |-> "2h"],
       [target |-> 10 * SecondsPerMinute, tol |-> 2 * SecondsPerMinute, label |-> "10min"] >>

\* get_default_notification_preferences(): the known categories
Categories ==
    {"48h", "24h", "2h", "10min", "opens_soon", "race_replay", "race_live", "race_results"}

QualiLabels == {"48h", "24h", "2h", "10min", "opens_soon", "custom_1", "custom_2"}

\* ------------------------------------------------------------------------
\* Bounds of the model
\* ------------------------------------------------------------------------
\* the scheduler's first tick is at second 0..MaxPhase of the model's clock
MaxPhase == 299
\* the scheduler-only runs: no tick starts after EndTime
EndTime == 193000
\* the runs with user-facing handlers: no tick starts more than Horizon
\* seconds after the first one
Horizon == 900
\* user-facing handlers run in one behaviour
MaxOps == 1
\* the runs of the user store alone: handlers run in one behaviour
MaxStoreOps == 2
\* bot.send_message calls that raise in one behaviour
MaxFailures == 2

\* ------------------------------------------------------------------------
\* Values
\* ------------------------------------------------------------------------
None == -1
\* the user component of a dedup key that is not a custom key
NoUser == 0

Abs(x) == IF x < 0 THEN -x ELSE x

\* the key of a custom trigger built without the user id
HistoryKeyWithoutUser(user, race_id, label) == <<NoUser, race_id, label>>

\* one key for all the triggers of a race
HistoryKeyWithoutLabel(user, race_id, label) == <<user, race_id, "any">>

\* history_key: (race_id, label) for broadcast triggers, (user_id, race_id,
\* label) for custom triggers.  The two shapes never collide in Python; here a
\* broadcast key carries NoUser, which is no user id.
HistoryKey(user, race_id, label) == <<user, race_id, label>>

VARIABLES
    now,                    \* datetime.utcnow() of the current (or next) tick
    boot,                   \* `now` of the first tick of this process
    pc,                     \* "decide": before a tick; "send": delivering
    race_calendar,          \* gpro_calendar.race_calendar: id -> race data
    users_data,             \* user_data.users_data: user id -> record
    notify_history,         \* checker.notify_history: key -> sent timestamp
    last_api_check_time,    \* checker.last_api_check_time, or None
    notifications_to_send,  \* the jobs of this tick not yet delivered
    pending,                \* users the head job still has to visit
    iter_len,               \* len(users_data) when `for user_id in users_data` of the
                            \* head job took its first user; 0 before that
    awaiting,               \* the calendar the tick's locals were computed from, while
                            \* the tick awaits the probe; << >> otherwise
    lock_held,              \* notification_lock is locked
    next_interval,          \* seconds to sleep after this tick
    emitted,                \* log: <<key, tick time>> of every job put in a due list
    sent_log,               \* log: every call handed to bot.send_message
    probe_log,              \* log: tick time of every status probe
    stop,                   \* no tick of this run starts after this time
    ops,                    \* user-facing handlers run so far
    failures,               \* bot.send_message calls that raised so far
    last_op,                \* log: the user-facing handler that ran last
    users_file,             \* USERS_FILE on disk
    users_tmp,              \* USERS_FILE + '.tmp' on disk
    calendar_file,          \* CALENDAR_FILE on disk
    calendar_tmp,           \* CALENDAR_FILE + '.tmp' on disk
    alive,                  \* the process is running
    op_limit,               \* user-facing handlers this run may execute
    last_save,              \* log: how the saves of the last handler ended
    tick_errors             \* log: <<phase, tick time>> of every tick that ended in
                            \* the except branch of check_notifications()

diskVars == << users_file, users_tmp, calendar_file, calendar_tmp, alive, op_limit, last_save >>

vars == << now, boot, pc, race_calendar, users_data, notify_history, last_api_check_time,
           notifications_to_send, pending, iter_len, awaiting, lock_held, next_interval,
           emitted, sent_log, probe_log, stop, ops, failures, last_op, diskVars, tick_errors >>

schedVars == << now, pc, notify_history, last_api_check_time, notifications_to_send,
                pending, iter_len, awaiting, lock_held, next_interval, emitted, probe_log,
                tick_errors >>

\* ------------------------------------------------------------------------
\* Helpers
\* ------------------------------------------------------------------------
\* the elements of S as a sequence ordered by rank (ties by value): the order
\* of sorted(..., key=...) over a dict built in ascending id order
RECURSIVE SortByRank(_, _)
SortByRank(S, rank) ==
    IF S = {} THEN << >>
    ELSE LET m == CHOOSE x \in S :
                    \A y \in S : rank[x] < rank[y] \/ (rank[x] = rank[y] /\ x <= y)
         IN << m >> \o SortByRank(S \ {m}, rank)

\* iteration order of a dict keyed by ids inserted in ascending order
IdOrder(S) == SortByRank(S, [x \in S |-> x])

\* ------------------------------------------------------------------------
\* Window arithmetic
\* ------------------------------------------------------------------------
\* The code compares hours as IEEE doubles: abs(secs/3600 - target) <= tol/60.
\* Strictly inside the tolerance the doubles agree with exact arithmetic; at
\* exactly the tolerance the rounding decides.  These are the (target,
\* signed distance) pairs, for the targets used here, where the double
\* comparison is false although the exact distance equals the tolerance.
BoundaryRoundsOut ==
    { << 48 * SecondsPerHour, -360 >>, << 48 * SecondsPerHour, 360 >>,
      << 24 * SecondsPerHour, -360 >>, << 24 * SecondsPerHour, 360 >>,
      << 2 * SecondsPerHour, 300 >>,
      << 10 * SecondsPerMinute, 120 >>,
      << 1 * SecondsPerHour, -300 >>,
      << 3 * SecondsPerHour, -300 >>, << 3 * SecondsPerHour, 300 >> }

\* abs(time_until - target_hours) <= tolerance_hours, arguments in seconds
WithinTolerance(time_until, target, tol) ==
    /\ Abs(time_until - target) <= tol
    /\ << target, time_until - target >> \notin BoundaryRoundsOut

\* get_races_closing_soon(hours_before): ids with quali_close strictly in the
\* future and at most hours_before away, closest first
RacesClosingSoon(cal, t, hours_before) ==
    LET S == { r \in DOMAIN cal :
                 /\ 0 < cal[r].quali_close - t
                 /\ cal[r].quali_close - t <= hours_before * SecondsPerHour }
    IN SortByRank(S, [r \in S |-> cal[r].quali_close - t])

\* the dedup check left out
NotInHistoryUnchecked(key, hist) == TRUE

\* "if history_key not in notify_history"
NotInHistory(key, hist) == key \notin DOMAIN hist

\* one entry of a due list
Job(type, race_id, race_data, label, user) ==
    [ type |-> type, race_id |-> race_id, race_data |-> race_data, label |-> label,
      history_key |-> HistoryKey(user, race_id, label), target_user_id |-> user ]

\* concatenation of f[1], ..., f[n] for a sequence f of sequences
RECURSIVE Flatten(_)
Flatten(ss) == IF ss = << >> THEN << >> ELSE Head(ss) \o Flatten(Tail(ss))

\* ------------------------------------------------------------------------
\* The four checks of the decide phase
\* ------------------------------------------------------------------------
\* _check_quali_closing_notifications(now)
CheckQualiClosing(t, cal, hist) ==
    LET races == RacesClosingSoon(cal, t, CLOSING_HORIZON_HOURS)
        due(r) == SelectSeq(NOTIFICATION_WINDOWS,
                     LAMBDA w : /\ WithinTolerance(cal[r].quali_close - t, w.target, w.tol)
                                /\ NotInHistory(HistoryKey(NoUser, r, w.label), hist))
        jobs(r) == [ i \in 1..Len(due(r)) |->
                       Job("quali", r, cal[r], due(r)[i].label, NoUser) ]
    IN Flatten([ i \in 1..Len(races) |-> jobs(races[i]) ])

\* one label for both slots
CustomLabelShared(slot_idx) == "custom_1"

\* _check_custom_notifications(now)
CustomLabel(slot_idx) == IF slot_idx = 1 THEN "custom_1" ELSE "custom_2"

CheckCustom(t, cal, hist, users) ==
    LET races == RacesClosingSoon(cal, t, CUSTOM_HORIZON_HOURS)
        uids == IdOrder(DOMAIN users)
        custom(u) == IF "custom_notifications" \in DOMAIN users[u]
                     THEN users[u].custom_notifications ELSE << >>
        slotJobs(u, s) ==
            LET c == custom(u)[s]
                hit == SelectSeq(races,
                         LAMBDA r : /\ WithinTolerance(cal[r].quali_close - t, c.hours_before,
                                                       CUSTOM_NOTIF_TOLERANCE_MIN * SecondsPerMinute)
                                    /\ NotInHistory(HistoryKey(u, r, CustomLabel(s)), hist))
            IN IF c.enabled /\ c.hours_before # None
               THEN [ i \in 1..Len(hit) |-> Job("custom", hit[i], cal[hit[i]], CustomLabel(s), u) ]
               ELSE << >>
        userJobs(u) ==
            Flatten([ s \in 1..Len(custom(u)) |-> slotJobs(u, s) ])
    IN Flatten([ i \in 1..Len(uids) |-> userJobs(uids[i]) ])

\* the window its comment describes: 5 min before to 2 min after the start
CheckRaceLiveAsCommented(t, cal, hist) ==
    LET ids == IdOrder(DOMAIN cal)
        hit == SelectSeq(ids,
                 LAMBDA r : /\ -(5 * SecondsPerMinute) <= t - cal[r].date
                            /\ t - cal[r].date <= 2 * SecondsPerMinute
                            /\ NotInHistory(HistoryKey(NoUser, r, "race_live"), hist))
    IN [ i \in 1..Len(hit) |-> Job("live", hit[i], cal[hit[i]], "race_live", NoUser) ]

\* _check_race_live_notifications(now)
CheckRaceLive(t, cal, hist) ==
    LET ids == IdOrder(DOMAIN cal)
        hit == SelectSeq(ids,
                 LAMBDA r : /\ -(RACE_LIVE_NOTIFICATION_BEFORE_MINUTES * SecondsPerMinute)
                                   <= t - cal[r].date
                            /\ t - cal[r].date
                                   <= RACE_LIVE_NOTIFICATION_AFTER_MINUTES * SecondsPerMinute
                            /\ NotInHistory(HistoryKey(NoUser, r, "race_live"), hist))
    IN [ i \in 1..Len(hit) |-> Job("live", hit[i], cal[hit[i]], "race_live", NoUser) ]

\* the "already notified" test of lines 137-140 left out
OpenCandidateAnyHistory(r, cal, hist) ==
    /\ r # 1
    /\ (r - 1) \in DOMAIN cal

\* _check_quali_open_notifications(now), lines 132-158: the races waiting for
\* their qualification to open
OpenCandidate(r, cal, hist) ==
    /\ r # 1
    /\ NotInHistory(HistoryKey(NoUser, r, "opens_soon"), hist)
    /\ (r - 1) \in DOMAIN cal

SecondsSinceRace(r, t, cal) == t - cal[r - 1].date

InPollingWindow(r, t, cal, hist) ==
    /\ OpenCandidate(r, cal, hist)
    /\ API_CHECK_START_HOURS * SecondsPerHour <= SecondsSinceRace(r, t, cal)
    /\ SecondsSinceRace(r, t, cal) <= API_CHECK_END_SECONDS

\* the tolerance compared in minutes against seconds
InFallbackWindowUnscaled(r, t, cal, hist) ==
    /\ OpenCandidate(r, cal, hist)
    /\ SecondsSinceRace(r, t, cal) > API_CHECK_END_SECONDS
    /\ SecondsSinceRace(r, t, cal) - API_CHECK_END_SECONDS <= FALLBACK_TOLERANCE_MINUTES

InFallbackWindow(r, t, cal, hist) ==
    /\ OpenCandidate(r, cal, hist)
    /\ SecondsSinceRace(r, t, cal) > API_CHECK_END_SECONDS
    /\ SecondsSinceRace(r, t, cal) - API_CHECK_END_SECONDS
           <= FALLBACK_TOLERANCE_MINUTES * SecondsPerMinute

ShouldCheckApi(t, cal, hist) == \E r \in DOMAIN cal : InPollingWindow(r, t, cal, hist)

\* the rate limit left out
ProbeAllowedAlways(t, last) == TRUE

\* lines 162-167: the probe is made only every API_CHECK_INTERVAL_MINUTES
ProbeAllowed(t, last) ==
    \/ last = None
    \/ t - last >= API_CHECK_INTERVAL_MINUTES * SecondsPerMinute

DoProbe(t, cal, hist, last) == ShouldCheckApi(t, cal, hist) /\ ProbeAllowed(t, last)

\* fetch_weather_from_api() is imported from gpro_calendar (line 9) but its
\* definition is not among the sources. Its callers test the result for
\* falsity and retry once, so its outcomes are taken to be weather data or
\* nothing; the result is only logged by the scheduler.
FetchWeatherFromApi(race_id) == {"weather", "nothing"}

\* the follow-ups attached to the race that opens, not to its predecessor
OpenJobsOfSameRace(r, cal, hist) ==
    << Job("opens", r, cal[r], "opens_soon", NoUser) >>
    \o (IF NotInHistory(HistoryKey(NoUser, r, "race_replay"), hist)
        THEN << Job("replay", r, cal[r], "race_replay", NoUser) >> ELSE << >>)
    \o (IF NotInHistory(HistoryKey(NoUser, r, "race_results"), hist)
        THEN << Job("results", r, cal[r], "race_results", NoUser) >> ELSE << >>)

\* lines 178-208 and 214-244: after the weather fetch has returned, the
\* opens job of race r with the replay and results jobs of its predecessor
OpenJobs(r, cal, hist) ==
    IF FetchWeatherFromApi(r) = {} THEN << >>
    ELSE
    << Job("opens", r, cal[r], "opens_soon", NoUser) >>
    \o (IF NotInHistory(HistoryKey(NoUser, r - 1, "race_replay"), hist)
        THEN << Job("replay", r - 1, cal[r - 1], "race_replay", NoUser) >> ELSE << >>)
    \o (IF NotInHistory(HistoryKey(NoUser, r - 1, "race_results"), hist)
        THEN << Job("results", r - 1, cal[r - 1], "race_results", NoUser) >> ELSE << >>)

\* api_result is the probe's answer: the set of race ids it confirmed
CheckQualiOpen(t, cal, hist, api_result) ==
    LET ids == IdOrder(DOMAIN cal)
        confirmed == SelectSeq(ids, LAMBDA r : InPollingWindow(r, t, cal, hist) /\ r \in api_result)
        fallback == SelectSeq(ids, LAMBDA r : InFallbackWindow(r, t, cal, hist))
    IN Flatten([ i \in 1..Len(confirmed) |-> OpenJobs(confirmed[i], cal, hist) ])
       \o Flatten([ i \in 1..Len(fallback) |-> OpenJobs(fallback[i], cal, hist) ])

\* check_quali_status_from_api(): with secondsLeftQual = seconds the answer
\* is the first race whose quali_close is within an hour of now + seconds
ProbeMatch(t, cal, seconds) ==
    LET ids == IdOrder(DOMAIN cal)
        hit == SelectSeq(ids,
                 LAMBDA r : Abs(cal[r].quali_close - (t + seconds)) < PROBE_MATCH_SECONDS)
    IN IF seconds > 0 /\ hit # << >> THEN { Head(hit) } ELSE {}

\* what the office endpoint may answer at time t: nothing (error, timeout,
\* no active qualification) or the seconds left of a qualification that is open
ProbeAnswers(t, cal) ==
    { {} } \cup { ProbeMatch(t, cal, cal[r].quali_close - t) : r \in DOMAIN cal }

\* the whole due list, in the order check_notifications() extends it
DueList(t, cal, hist, users, api_result) ==
    CheckQualiClosing(t, cal, hist)
    \o CheckQualiOpen(t, cal, hist, api_result)
    \o CheckRaceLive(t, cal, hist)
    \o CheckCustom(t, cal, hist, users)

\* a map that is never pruned
PruneHistoryNever(t, hist) == hist

\* line 366-367: entries not younger than the retention are dropped
PruneHistory(t, hist) ==
    LET keep == { k \in DOMAIN hist :
                    hist[k] > t - NOTIFICATION_HISTORY_RETENTION_DAYS * SecondsPerDay }
    IN [ k \in keep |-> hist[k] ]

\* the fast interval only while the race is still ahead
GetNextCheckIntervalBeforeOnly(t, cal) ==
    IF \E r \in DOMAIN cal :
          /\ 0 <= cal[r].date - t
          /\ cal[r].date - t <= RACE_PROXIMITY_THRESHOLD_MINUTES * SecondsPerMinute
    THEN CHECK_INTERVAL_FAST_SECONDS
    ELSE CHECK_INTERVAL_NORMAL_SECONDS

\* the normal interval three times as long
GetNextCheckIntervalLazy(t, cal) ==
    IF \E r \in DOMAIN cal :
          /\ -(RACE_LIVE_NOTIFICATION_AFTER_MINUTES * SecondsPerMinute) <= cal[r].date - t
          /\ cal[r].date - t <= RACE_PROXIMITY_THRESHOLD_MINUTES * SecondsPerMinute
    THEN CHECK_INTERVAL_FAST_SECONDS
    ELSE 3 * CHECK_INTERVAL_NORMAL_SECONDS

\* _get_next_check_interval(now)
GetNextCheckInterval(t, cal) ==
    IF \E r \in DOMAIN cal :
          /\ -(RACE_LIVE_NOTIFICATION_AFTER_MINUTES * SecondsPerMinute) <= cal[r].date - t
          /\ cal[r].date - t <= RACE_PROXIMITY_THRESHOLD_MINUTES * SecondsPerMinute
    THEN CHECK_INTERVAL_FAST_SECONDS
    ELSE CHECK_INTERVAL_NORMAL_SECONDS

\* ------------------------------------------------------------------------
\* Senders
\* ------------------------------------------------------------------------
\* the toggle ignored
IsNotificationEnabledAlways(users, u, label) == TRUE

\* is_notification_enabled(user_id, label)
IsNotificationEnabled(users, u, label) ==
    IF label \in DOMAIN users[u].notifications THEN users[u].notifications[label] ELSE TRUE

\* the completed_quali check left out
SendQualiNotificationNoSkip(users, u, race_id, notification_type) ==
    << [ user |-> u, race_id |-> race_id, label |-> notification_type,
         variant |-> IF users[u].completed_quali = race_id
                     THEN "disabled" ELSE "normal" ] >>

\* send_quali_notification(): the calls it hands to bot.send_message.  An
\* automatic notification for the race the user marked done is skipped; a
\* "manual" one is sent in the "disabled" wording.
SendQualiNotification(users, u, race_id, notification_type) ==
    IF users[u].completed_quali = race_id /\ notification_type # "manual"
    THEN << >>
    ELSE << [ user |-> u, race_id |-> race_id, label |-> notification_type,
              variant |-> IF users[u].completed_quali = race_id
                          THEN "disabled" ELSE "normal" ] >>

\* send_race_live_notification(), send_race_replay_notification() and
\* send_race_results_notification(): always one call
SendRaceNotification(users, u, race_id, label) ==
    << [ user |-> u, race_id |-> race_id, label |-> label, variant |-> "normal" ] >>

\* _send_notifications_to_users(), lines 292-316: what one job sends to one
\* user of its audience
SendJobToUser(users, job, u) ==
    IF job.type = "custom"
    THEN SendQualiNotification(users, u, job.race_id, job.label)
    ELSE IF ~IsNotificationEnabled(users, u, job.label)
         THEN << >>
         ELSE IF job.type \in {"quali", "opens"}
              THEN SendQualiNotification(users, u, job.race_id, job.label)
              ELSE SendRaceNotification(users, u, job.race_id, job.label)

\* lines 280-303: a custom job goes to its user, any other to every known user
Audience(job, users) ==
    IF job.type = "custom" THEN << job.target_user_id >> ELSE IdOrder(DOMAIN users)

\* bot.send_message either succeeds or raises; every sender catches and logs
Stamp(calls, ok, t, auto) ==
    [ i \in 1..Len(calls) |->
        [ user |-> calls[i].user, race_id |-> calls[i].race_id, label |-> calls[i].label,
          variant |-> calls[i].variant, ok |-> ok, t |-> t, auto |-> auto ] ]

\* ------------------------------------------------------------------------
\* Durable storage: the user file and the calendar file
\* ------------------------------------------------------------------------
\* json.dump() writes the int keys of a dict as strings: str(k); the loaders
\* turn them back with int(k_str)
StrKey(k) == << "str", k >>
IntKey(s) == s[2]

\* datetime.isoformat() and datetime.fromisoformat()
IsoFormat(t) == << "iso", t >>
FromIsoFormat(s) == s[2]

\* a path on disk: missing, or a file with its contents; a temp file may
\* hold an unfinished dump
NoFile == [ exists |-> FALSE, data |-> << >> ]
FileOf(data) == [ exists |-> TRUE, data |-> data ]
NoTemp == [ exists |-> FALSE, complete |-> FALSE, data |-> << >> ]
TempOf(complete, data) == [ exists |-> TRUE, complete |-> complete, data |-> data ]

\* how a save can end: it returns after os.replace, one of open / json.dump /
\* flush / fsync / os.replace raises, or the process is killed while the
\* temp file is being written or after it is written and before os.replace
SaveReturns == { "ok", "raises" }
SaveKills == { "killed_writing", "killed_before_replace" }

\* dict.update()
Update(old, new) ==
    [ k \in DOMAIN old \cup DOMAIN new |-> IF k \in DOMAIN new THEN new[k] ELSE old[k] ]

\* save_users_data() line 75: save_data = {str(k): v ...}
DumpUsers(users) == [ s \in { StrKey(k) : k \in DOMAIN users } |-> users[IntKey(s)] ]

\* a loader that starts every user with a clean marker
ParseUsersForgetsMarker(data) ==
    [ k \in { IntKey(s) : s \in DOMAIN data } |->
        [ data[StrKey(k)] EXCEPT !.completed_quali = None ] ]

\* load_users_data() line 61: clean_data = {int(k_str): status ...}
ParseUsers(data) == [ k \in { IntKey(s) : s \in DOMAIN data } |-> data[StrKey(k)] ]

\* load_users_data(): the file's records are merged into users_data
LoadUsersData(users, file) ==
    IF file.exists THEN Update(users, ParseUsers(file.data)) ELSE users

\* the rename left out: the dump is written straight into the target
SaveUsersDataInPlace(st, outcome) ==
    IF ~st.alive THEN st
    ELSE CASE outcome = "ok" ->
                [ st EXCEPT !.file = FileOf(DumpUsers(st.users)),
                            !.saves = Append(@, outcome) ]
           [] outcome = "raises" ->
                [ st EXCEPT !.file = FileOf(<< >>), !.saves = Append(@, outcome) ]
           [] outcome = "killed_writing" ->
                [ st EXCEPT !.file = FileOf(<< >>), !.alive = FALSE,
                            !.saves = Append(@, outcome) ]
           [] outcome = "killed_before_replace" ->
                [ st EXCEPT !.file = FileOf(DumpUsers(st.users)), !.alive = FALSE,
                            !.saves = Append(@, outcome) ]

\* save_users_data().  st is the store: users (users_data), file, tmp,
\* alive, and saves, the log of how the saves made so far ended.
SaveUsersData(st, outcome) ==
    IF ~st.alive THEN st
    ELSE CASE outcome = "ok" ->
                [ st EXCEPT !.file = FileOf(DumpUsers(st.users)), !.tmp = NoTemp,
                            !.saves = Append(@, outcome) ]
           [] outcome = "raises" ->
                [ st EXCEPT !.tmp = NoTemp, !.saves = Append(@, outcome) ]
           [] outcome = "killed_writing" ->
                [ st EXCEPT !.tmp = TempOf(FALSE, << >>), !.alive = FALSE,
                            !.saves = Append(@, outcome) ]
           [] outcome = "killed_before_replace" ->
                [ st EXCEPT !.tmp = TempOf(TRUE, DumpUsers(st.users)), !.alive = FALSE,
                            !.saves = Append(@, outcome) ]

\* _save_calendar_to_file() lines 67-73
DumpCalendar(cal) ==
    [ s \in { StrKey(k) : k \in DOMAIN cal } |->
        [ quali_close |-> IsoFormat(cal[IntKey(s)].quali_close),
          date |-> IsoFormat(cal[IntKey(s)].date) ] ]

\* _load_calendar_from_file() lines 41-50
ParseCalendar(data) ==
    [ k \in { IntKey(s) : s \in DOMAIN data } |->
        [ date |-> FromIsoFormat(data[StrKey(k)].date),
          quali_close |-> FromIsoFormat(data[StrKey(k)].quali_close) ] ]

\* load_calendar_silent(): an empty or missing cache leaves race_calendar as
\* it is
LoadCalendarSilent(cal, file) ==
    IF file.exists /\ DOMAIN file.data # {} THEN ParseCalendar(file.data) ELSE cal

\* ------------------------------------------------------------------------
\* User records
\* ------------------------------------------------------------------------
\* get_default_notification_preferences()
DefaultNotificationPreferences == [ c \in Categories |-> TRUE ]

EmptySlot == [ enabled |-> FALSE, hours_before |-> None ]
Slot(seconds) == [ enabled |-> TRUE, hours_before |-> seconds ]

\* get_default_custom_notifications()
DefaultCustomNotifications == << EmptySlot, EmptySlot >>

UserRecord(done, prefs, custom) ==
    [ completed_quali |-> done, notifications |-> prefs, custom_notifications |-> custom ]

\* ------------------------------------------------------------------------
\* The user store (user_data.py, validation.py)
\* ------------------------------------------------------------------------
CUSTOM_NOTIF_MIN_SECONDS == 20 * SecondsPerMinute
CUSTOM_NOTIF_MAX_HOURS == 70
CUSTOM_NOTIF_MAX_SLOTS == 2

\* get_user_status() lines 103-110: the record of a new user
NewUserRecord == UserRecord(None, DefaultNotificationPreferences, DefaultCustomNotifications)

\* get_user_status() lines 116-135: fields a record lacks are added (of the
\* five fields it looks at, the store keeps the two the scheduler reads)
MigrateRecord(rec) ==
    Update([ f \in { "notifications", "custom_notifications" } \ DOMAIN rec |->
               IF f = "notifications" THEN DefaultNotificationPreferences
               ELSE DefaultCustomNotifications ],
           rec)

\* a migration that saves after every field it adds
GetUserStatusSavesPerField(st, u, outcome) ==
    LET loaded == IF DOMAIN st.users = {} THEN LoadUsersData(st.users, st.file)
                  ELSE st.users
        s0 == [ st EXCEPT !.users = loaded ]
        s1 == IF "notifications" \in DOMAIN loaded[u] THEN s0
              ELSE SaveUsersData(
                     [ s0 EXCEPT !.users[u] =
                         Update([ f \in { "notifications" } |-> DefaultNotificationPreferences ],
                                loaded[u]) ], outcome)
    IN IF u \notin DOMAIN loaded
       THEN SaveUsersData([ st EXCEPT !.users = Update(loaded, [ k \in {u} |-> NewUserRecord ]) ],
                          outcome)
       ELSE IF "custom_notifications" \in DOMAIN loaded[u] THEN s1
            ELSE SaveUsersData([ s1 EXCEPT !.users[u] = MigrateRecord(@) ], outcome)

\* get_user_status(user_id)
GetUserStatus(st, u, outcome) ==
    LET loaded == IF DOMAIN st.users = {} THEN LoadUsersData(st.users, st.file)
                  ELSE st.users
    IN IF u \notin DOMAIN loaded
       THEN SaveUsersData([ st EXCEPT !.users = Update(loaded, [ k \in {u} |-> NewUserRecord ]) ],
                          outcome)
       ELSE IF MigrateRecord(loaded[u]) # loaded[u]
            THEN SaveUsersData([ st EXCEPT !.users =
                                    [ loaded EXCEPT ![u] = MigrateRecord(loaded[u]) ] ],
                               outcome)
            ELSE [ st EXCEPT !.users = loaded ]

\* mark_quali_done(user_id, race_id)
MarkQualiDoneOp(st, u, r, o1, o2) ==
    LET s1 == GetUserStatus(st, u, o1)
    IN IF ~s1.alive THEN s1
       ELSE SaveUsersData([ s1 EXCEPT !.users[u].completed_quali = r ], o2)

\* reset_user_status(user_id)
ResetUserStatusOp(st, u, o) ==
    IF u \in DOMAIN st.users
    THEN SaveUsersData([ st EXCEPT !.users[u].completed_quali = None ], o)
    ELSE st

\* toggle_notification(user_id, notification_type)
ToggleNotificationOp(st, u, label, o1, o2) ==
    LET s1 == GetUserStatus(st, u, o1)
    IN IF ~s1.alive THEN s1
       ELSE SaveUsersData(
              [ s1 EXCEPT !.users[u].notifications =
                  Update(@, [ l \in {label} |-> ~IsNotificationEnabled(s1.users, u, label) ]) ],
              o2)

\* handle_toggle_notification(), "toggle_all_on" and "toggle_all_off": every
\* key the user's toggle map holds is set to value
ToggleAllOp(st, u, value, o1, o2) ==
    LET s1 == GetUserStatus(st, u, o1)
    IN IF ~s1.alive THEN s1
       ELSE SaveUsersData(
              [ s1 EXCEPT !.users[u].notifications =
                  [ c \in DOMAIN s1.users[u].notifications |-> value ] ],
              o2)

\* validate_custom_notification_hours(hours), hours in seconds
ValidateCustomNotificationHours(hours) ==
    /\ hours # None
    /\ ~(hours < CUSTOM_NOTIF_MIN_SECONDS)
    /\ ~(hours > CUSTOM_NOTIF_MAX_HOURS * SecondsPerHour)

\* lines 180-181: the list is padded to CUSTOM_NOTIF_MAX_SLOTS
RECURSIVE PadSlots(_)
PadSlots(custom) ==
    IF Len(custom) < CUSTOM_NOTIF_MAX_SLOTS THEN PadSlots(Append(custom, EmptySlot))
    ELSE custom

\* the slot check left out (an index past the end extends the list)
SetCustomNotificationAnySlot(st, u, slot, hours_before, o1, o2) ==
    IF slot < 0 \/ (hours_before # None /\ ~ValidateCustomNotificationHours(hours_before))
    THEN [ st |-> st, success |-> FALSE ]
    ELSE LET s1 == GetUserStatus(st, u, o1)
         IN IF ~s1.alive THEN [ st |-> s1, success |-> FALSE ]
            ELSE LET custom == PadSlots(s1.users[u].custom_notifications)
                     entry == IF hours_before = None THEN EmptySlot ELSE Slot(hours_before)
                     updated == IF slot + 1 <= Len(custom)
                                THEN [ custom EXCEPT ![slot + 1] = entry ]
                                ELSE Append(custom, entry)
                     s2 == SaveUsersData([ s1 EXCEPT !.users[u].custom_notifications = updated ], o2)
                 IN [ st |-> s2, success |-> s2.alive ]

\* the range check left out
SetCustomNotificationAnyHours(st, u, slot, hours_before, o1, o2) ==
    IF slot < 0 \/ slot >= CUSTOM_NOTIF_MAX_SLOTS
    THEN [ st |-> st, success |-> FALSE ]
    ELSE LET s1 == GetUserStatus(st, u, o1)
         IN IF ~s1.alive THEN [ st |-> s1, success |-> FALSE ]
            ELSE LET custom == PadSlots(s1.users[u].custom_notifications)
                     entry == IF hours_before = None THEN EmptySlot ELSE Slot(hours_before)
                     s2 == SaveUsersData([ s1 EXCEPT !.users[u].custom_notifications =
                                                [ custom EXCEPT ![slot + 1] = entry ] ], o2)
                 IN [ st |-> s2, success |-> s2.alive ]

\* set_custom_notification(user_id, slot, hours_before): slot is 0 or 1,
\* hours_before in seconds or None.  success is the first component of the
\* returned pair (a killed process returns nothing).
SetCustomNotificationOp(st, u, slot, hours_before, o1, o2) ==
    IF slot < 0 \/ slot >= CUSTOM_NOTIF_MAX_SLOTS
    THEN [ st |-> st, success |-> FALSE ]
    ELSE IF hours_before # None /\ ~ValidateCustomNotificationHours(hours_before)
    THEN [ st |-> st, success |-> FALSE ]
    ELSE LET s1 == GetUserStatus(st, u, o1)
         IN IF ~s1.alive THEN [ st |-> s1, success |-> FALSE ]
            ELSE LET custom == PadSlots(s1.users[u].custom_notifications)
                     entry == IF hours_before = None THEN EmptySlot ELSE Slot(hours_before)
                     s2 == SaveUsersData([ s1 EXCEPT !.users[u].custom_notifications =
                                                [ custom EXCEPT ![slot + 1] = entry ] ], o2)
                 IN [ st |-> s2, success |-> s2.alive ]

\* ------------------------------------------------------------------------
\* The store as one call finds and leaves it
\* ------------------------------------------------------------------------
\* the store as a handler finds it
CurStore ==
    [ users |-> users_data, file |-> users_file, tmp |-> users_tmp, alive |-> alive,
      saves |-> << >> ]

\* the store as a handler leaves it
ApplyStore(st) ==
    /\ users_data' = st.users
    /\ users_file' = st.file
    /\ users_tmp' = st.tmp
    /\ alive' = st.alive
    /\ last_save' = st.saves

\* ------------------------------------------------------------------------
\* The scheduler: check_notifications()
\* ------------------------------------------------------------------------
\* `async with notification_lock` (lines 355 and 321): acquire() returns at
\* once if the lock is not locked and waits for a release otherwise; the
\* block's exit, by falling through or by an exception, releases it
LockFree == ~lock_held

\* a block left without releasing the lock
ExitLockSkipped == lock_held' = TRUE

ExitLock == lock_held' = FALSE

\* lines 355-370: the decide phase of one tick, under notification_lock.
\* api_result is what the probe answers if it is made.  A tick with nothing
\* due goes straight to sleep.
DecideWith(api_result) ==
    /\ pc = "decide"
    /\ now <= stop
    /\ LET probe == DoProbe(now, race_calendar, notify_history, last_api_check_time)
           due == DueList(now, race_calendar, notify_history, users_data,
                          IF probe THEN api_result ELSE {})
           interval == GetNextCheckInterval(now, race_calendar)
       IN /\ last_api_check_time' = (IF probe THEN now ELSE last_api_check_time)
          /\ probe_log' = (IF probe THEN Append(probe_log, now) ELSE probe_log)
          /\ notify_history' = PruneHistory(now, notify_history)
          /\ next_interval' = interval
          /\ emitted' = emitted \o [ i \in 1..Len(due) |-> << due[i].history_key, now >> ]
          /\ notifications_to_send' = due
          /\ IF due = << >>
             THEN /\ pc' = "decide"
                  /\ now' = now + interval
                  /\ pending' = << >>
             ELSE /\ pc' = "send"
                  /\ now' = now
                  /\ pending' = Audience(Head(due), users_data)
          /\ iter_len' = 0
          /\ awaiting' = awaiting
          /\ LockFree
          /\ ExitLock
    /\ UNCHANGED << boot, race_calendar, users_data, sent_log, stop, ops, failures, last_op,
                    diskVars, tick_errors >>

Decide == \E api_result \in ProbeAnswers(now, race_calendar) : DecideWith(api_result)

\* the probe never confirms anything
DecideSilent == DecideWith({})

\* The decide phase in the two halves its await of the probe divides it
\* into.  Lines 355-359 and 123-165: the closing reminders and the lists
\* races_in_polling_window and races_for_fallback (race_id, race_data,
\* prev_race_id) are computed from the calendar of that moment, then
\* check_quali_status_from_api() is awaited.  notification_lock is held,
\* but no handler takes it.
ProbeBegin ==
    /\ pc = "decide"
    /\ now <= stop
    /\ DoProbe(now, race_calendar, notify_history, last_api_check_time)
    /\ pc' = "probe"
    /\ awaiting' = race_calendar
    /\ LockFree
    /\ lock_held' = TRUE
    /\ UNCHANGED << now, boot, race_calendar, users_data, notify_history,
                    last_api_check_time, notifications_to_send, pending, iter_len,
                    next_interval, emitted, sent_log, probe_log, stop, ops, failures,
                    last_op, diskVars, tick_errors >>

\* lines 178-208 and 214-244 after an await: race_id and race_data are the
\* ones put into the list before it, race_calendar[prev_race_id] is read now
OpenJobsAfterAwait(r, held, cal, hist) ==
    IF FetchWeatherFromApi(r) = {} THEN << >>
    ELSE
    << Job("opens", r, held[r], "opens_soon", NoUser) >>
    \o (IF NotInHistory(HistoryKey(NoUser, r - 1, "race_replay"), hist)
        THEN << Job("replay", r - 1, cal[r - 1], "race_replay", NoUser) >> ELSE << >>)
    \o (IF NotInHistory(HistoryKey(NoUser, r - 1, "race_results"), hist)
        THEN << Job("results", r - 1, cal[r - 1], "race_results", NoUser) >> ELSE << >>)

\* lines 174-244 after the probe has answered: the races of the two lists
\* that get their jobs
OpenedAfterAwait(t, held, hist, api_result) ==
    LET ids == IdOrder(DOMAIN held)
    IN SelectSeq(ids, LAMBDA r : InPollingWindow(r, t, held, hist) /\ r \in api_result)
       \o SelectSeq(ids, LAMBDA r : InFallbackWindow(r, t, held, hist))

\* lines 178 and 195-202: race_calendar[race_id] and
\* race_calendar[prev_race_id] are subscripted, a KeyError if the id is gone
KeyErrorAfterAwait(opened, cal, hist) ==
    \E i \in DOMAIN opened :
        \/ opened[i] \notin DOMAIN cal
        \/ /\ (opened[i] - 1) \notin DOMAIN cal
           /\ \/ NotInHistory(HistoryKey(NoUser, opened[i] - 1, "race_replay"), hist)
              \/ NotInHistory(HistoryKey(NoUser, opened[i] - 1, "race_results"), hist)

\* Lines 165-208 and 360-370: the probe answers, matching its answer with
\* the calendar as it is now (gpro_calendar.py lines 326-331); the jobs of
\* the races put into the lists before the await are added, then the live
\* and the custom check, the pruning and the next interval use the calendar
\* as it is now.
ProbeEnd(api_result) ==
    /\ pc = "probe"
    /\ LET held == awaiting
           opened == OpenedAfterAwait(now, held, notify_history, api_result)
       IN IF KeyErrorAfterAwait(opened, race_calendar, notify_history)
          THEN /\ last_api_check_time' = now
               /\ probe_log' = Append(probe_log, now)
               /\ next_interval' = CHECK_INTERVAL_NORMAL_SECONDS
               /\ now' = now + CHECK_INTERVAL_NORMAL_SECONDS
               /\ tick_errors' = Append(tick_errors, << "decide", now >>)
               /\ pc' = "decide"
               /\ UNCHANGED << notify_history, emitted, notifications_to_send, pending >>
          ELSE LET due == CheckQualiClosing(now, held, notify_history)
                          \o Flatten([ i \in 1..Len(opened) |->
                                 OpenJobsAfterAwait(opened[i], held, race_calendar,
                                                    notify_history) ])
                          \o CheckRaceLive(now, race_calendar, notify_history)
                          \o CheckCustom(now, race_calendar, notify_history, users_data)
                   interval == GetNextCheckInterval(now, race_calendar)
               IN /\ last_api_check_time' = now
                  /\ probe_log' = Append(probe_log, now)
                  /\ notify_history' = PruneHistory(now, notify_history)
                  /\ next_interval' = interval
                  /\ emitted' = emitted
                         \o [ i \in 1..Len(due) |-> << due[i].history_key, now >> ]
                  /\ notifications_to_send' = due
                  /\ tick_errors' = tick_errors
                  /\ IF due = << >>
                     THEN /\ pc' = "decide"
                          /\ now' = now + interval
                          /\ pending' = << >>
                     ELSE /\ pc' = "send"
                          /\ now' = now
                          /\ pending' = Audience(Head(due), users_data)
    /\ iter_len' = 0
    /\ awaiting' = << >>
    /\ lock_held
    /\ ExitLock
    /\ UNCHANGED << boot, race_calendar, users_data, sent_log, stop, ops, failures, last_op,
                    diskVars >>

\* a tick that does not probe
DecideWithoutProbe ==
    /\ ~DoProbe(now, race_calendar, notify_history, last_api_check_time)
    /\ DecideWith({})

\* line 303: the size of the dict a broadcast job loops over (a custom job
\* does not loop)
LoopLen(job, users) == IF job.type = "custom" THEN 0 ELSE Cardinality(DOMAIN users)

\* a transport failure that is not caught: it ends the tick at line 375
DeliverAbortsOnFailure(ok) ==
    /\ pc = "send"
    /\ pending # << >>
    /\ LET job == Head(notifications_to_send)
           u == Head(pending)
           calls == SendJobToUser(users_data, job, u)
       IN /\ sent_log' = sent_log \o Stamp(calls, ok, now, TRUE)
          /\ IF ok \/ calls = << >>
             THEN /\ failures' = failures
                  /\ pending' = Tail(pending)
                  /\ iter_len' = LoopLen(job, users_data)
                  /\ awaiting' = awaiting
                  /\ lock_held' = lock_held
                  /\ UNCHANGED << now, pc, notifications_to_send, next_interval >>
             ELSE /\ failures < MaxFailures
                  /\ failures' = failures + 1
                  /\ pending' = << >>
                  /\ iter_len' = 0
                  /\ awaiting' = awaiting
                  /\ lock_held' = lock_held
                  /\ notifications_to_send' = << >>
                  /\ pc' = "decide"
                  /\ next_interval' = CHECK_INTERVAL_NORMAL_SECONDS
                  /\ now' = now + CHECK_INTERVAL_NORMAL_SECONDS
    /\ UNCHANGED << boot, race_calendar, users_data, notify_history,
                    last_api_check_time, emitted, probe_log, stop, ops, last_op, diskVars,
                    tick_errors >>

\* lines 293-316: the head job is sent to the next user of its audience.
\* The loop runs over the dict itself: its first step fixes the users it
\* will visit, and a later step finds the dict at the size of the first.
\* is_notification_enabled() and the senders look the user up with
\* get_user_status(), which completes and saves a record that lacks fields.
DeliverWith(ok) ==
    /\ pc = "send"
    /\ pending # << >>
    /\ LET job == Head(notifications_to_send)
           queue == IF job.type # "custom" /\ iter_len = 0
                    THEN Audience(job, users_data) ELSE pending
           u == Head(queue)
           migrate == MigrateRecord(users_data[u]) # users_data[u]
           users == IF migrate THEN [ users_data EXCEPT ![u] = MigrateRecord(@) ]
                    ELSE users_data
           calls == SendJobToUser(users, job, u)
       IN /\ iter_len \in { 0, LoopLen(job, users_data) }
          /\ IF migrate
             THEN \E o \in SaveReturns : ApplyStore(GetUserStatus(CurStore, u, o))
             ELSE UNCHANGED << users_data, users_file, users_tmp, alive, last_save >>
          /\ sent_log' = sent_log \o Stamp(calls, ok, now, TRUE)
          /\ IF ok \/ calls = << >>
             THEN failures' = failures
             ELSE failures < MaxFailures /\ failures' = failures + 1
          /\ pending' = Tail(queue)
          /\ iter_len' = LoopLen(job, users_data)
          /\ awaiting' = awaiting
          /\ lock_held' = lock_held
    /\ UNCHANGED << now, boot, pc, race_calendar, notify_history,
                    last_api_check_time, notifications_to_send, next_interval,
                    emitted, probe_log, stop, ops, last_op, calendar_file, calendar_tmp,
                    op_limit, tick_errors >>

DeliverUser == \E ok \in BOOLEAN : DeliverWith(ok)

\* the transport never fails
DeliverUserOk == DeliverWith(TRUE)

\* lines 320-322: the head job's dedup record is written; after the last job
\* of the tick the loop sleeps next_interval (line 380)
\* the key of the record a transport call belongs to
CallKey(call) ==
    IF call.label \in Categories
    THEN HistoryKey(NoUser, call.race_id, call.label)
    ELSE HistoryKey(call.user, call.race_id, call.label)

\* a record only for a job somebody received
WriteBackIfReceived(hist, key, t) ==
    IF \E i \in DOMAIN sent_log :
           sent_log[i].auto /\ sent_log[i].ok /\ sent_log[i].t = t
           /\ CallKey(sent_log[i]) = key
    THEN [ k \in DOMAIN hist \cup {key} |-> IF k = key THEN t ELSE hist[k] ]
    ELSE hist

\* lines 320-322: under the lock, notify_history[history_key] = now
WriteBack(hist, key, t) ==
    [ k \in DOMAIN hist \cup {key} |-> IF k = key THEN t ELSE hist[k] ]

FinishJob ==
    /\ pc = "send"
    /\ pending = << >>
    /\ iter_len \in { 0, LoopLen(Head(notifications_to_send), users_data) }
    /\ iter_len' = 0
    /\ awaiting' = awaiting
    /\ LockFree
    /\ ExitLock
    /\ LET job == Head(notifications_to_send)
           rest == Tail(notifications_to_send)
       IN /\ notify_history' = WriteBack(notify_history, job.history_key, now)
          /\ notifications_to_send' = rest
          /\ IF rest = << >>
             THEN /\ pc' = "decide"
                  /\ now' = now + next_interval
                  /\ pending' = << >>
             ELSE /\ pc' = "send"
                  /\ now' = now
                  /\ pending' = Audience(Head(rest), users_data)
    /\ UNCHANGED << boot, race_calendar, users_data, last_api_check_time, next_interval,
                    emitted, sent_log, probe_log, stop, ops, failures, last_op, diskVars,
                    tick_errors >>

\* lines 375-380: an exception raised under the lock ends the tick in the
\* except branch.  The checks had not changed notify_history yet; if the
\* probe had been made (after_probe) its time stays recorded.
RaiseInDecide(after_probe) ==
    /\ pc = "decide"
    /\ now <= stop
    /\ LET probe == after_probe /\ DoProbe(now, race_calendar, notify_history,
                                           last_api_check_time)
       IN /\ last_api_check_time' = (IF probe THEN now ELSE last_api_check_time)
          /\ probe_log' = (IF probe THEN Append(probe_log, now) ELSE probe_log)
    /\ tick_errors' = Append(tick_errors, << "decide", now >>)
    /\ next_interval' = CHECK_INTERVAL_NORMAL_SECONDS
    /\ now' = now + CHECK_INTERVAL_NORMAL_SECONDS
    /\ UNCHANGED << pc, boot, race_calendar, users_data, notify_history,
                    notifications_to_send, pending, iter_len, awaiting, emitted,
                    sent_log, stop, ops, failures, last_op, diskVars >>
    /\ LockFree
    /\ ExitLock

\* an exception that leaves the loop: the task ends
RaiseInDeliveryEndsLoop ==
    /\ pc = "send"
    /\ tick_errors' = Append(tick_errors, << "send", now >>)
    /\ notifications_to_send' = << >>
    /\ pending' = << >>
    /\ iter_len' = 0
    /\ awaiting' = awaiting
    /\ lock_held' = lock_held
    /\ pc' = "ended"
    /\ UNCHANGED << now, next_interval, boot, race_calendar, users_data, notify_history,
                    last_api_check_time, emitted, sent_log, probe_log, stop, ops, failures,
                    last_op, diskVars >>

\* lines 372-380: an exception that escapes _send_notifications_to_users
\* drops the jobs not yet delivered, without their dedup records
RaiseInDelivery ==
    /\ pc = "send"
    /\ tick_errors' = Append(tick_errors, << "send", now >>)
    /\ notifications_to_send' = << >>
    /\ pending' = << >>
    /\ iter_len' = 0
    /\ awaiting' = awaiting
    /\ lock_held' = lock_held
    /\ pc' = "decide"
    /\ next_interval' = CHECK_INTERVAL_NORMAL_SECONDS
    /\ now' = now + CHECK_INTERVAL_NORMAL_SECONDS
    /\ UNCHANGED << boot, race_calendar, users_data, notify_history, last_api_check_time,
                    emitted, sent_log, probe_log, stop, ops, failures, last_op, diskVars >>

\* line 303: a user registered while the loop awaited a send; the loop's
\* next step raises "RuntimeError: dictionary changed size during
\* iteration", which no try inside _send_notifications_to_users catches
DictChangedSize ==
    /\ pc = "send"
    /\ iter_len # 0
    /\ iter_len # LoopLen(Head(notifications_to_send), users_data)
    /\ RaiseInDelivery

\* ------------------------------------------------------------------------
\* Initial states
\* ------------------------------------------------------------------------
\* parse_gpro_events(): a race starts at `date`, its qualification closes
\* QUALI_CLOSES_BEFORE_RACE_HOURS earlier
Race(date) == [ date |-> date, quali_close |-> date - QUALI_CLOSES_BEFORE_RACE_SECONDS ]

\* Two races a day apart, the first one's qualification closing a little
\* more than 48 h 6 min after the model's clock starts.
FirstRaceDate ==
    48 * SecondsPerHour + 6 * SecondsPerMinute + CHECK_INTERVAL_NORMAL_SECONDS
    + QUALI_CLOSES_BEFORE_RACE_SECONDS

SeasonCalendar ==
    [ r \in {1, 2} |-> Race(FirstRaceDate + (r - 1) * SecondsPerDay) ]

\* user 1 asks for a reminder 1 h before the deadline, user 2 for 3 h
SchedUsers ==
    [ u \in {1, 2} |->
        IF u = 1
        THEN UserRecord(None, DefaultNotificationPreferences,
                        << Slot(1 * SecondsPerHour), EmptySlot >>)
        ELSE UserRecord(None, DefaultNotificationPreferences,
                        << Slot(3 * SecondsPerHour), EmptySlot >>) ]

\* module state at import (checker.py lines 44-46), the calendar and the
\* users as loaded by bot.main()
InitScheduler ==
    /\ pc = "decide"
    /\ notify_history = << >>
    /\ last_api_check_time = None
    /\ notifications_to_send = << >>
    /\ pending = << >>
    /\ iter_len = 0
    /\ awaiting = << >>
    /\ lock_held = FALSE
    /\ next_interval = CHECK_INTERVAL_NORMAL_SECONDS
    /\ emitted = << >>
    /\ sent_log = << >>
    /\ probe_log = << >>
    /\ ops = 0
    /\ failures = 0
    /\ last_op = << "none", NoUser, None >>
    /\ users_file = FileOf(DumpUsers(users_data))
    /\ users_tmp = NoTemp
    /\ calendar_file = FileOf(DumpCalendar(race_calendar))
    /\ calendar_tmp = NoTemp
    /\ alive = TRUE
    /\ last_save = << >>
    /\ tick_errors = << >>

InitSched ==
    /\ now \in 0..MaxPhase
    /\ boot = now
    /\ race_calendar = SeasonCalendar
    /\ users_data = SchedUsers
    /\ stop = EndTime
    /\ op_limit = 0
    /\ InitScheduler

\* The scheduler alone: static calendar and users, a silent probe, a
\* transport that delivers.
NextSched == DecideSilent \/ DeliverUserOk \/ FinishJob

SpecSched == InitSched /\ [][NextSched]_vars

\* ------------------------------------------------------------------------
\* User-facing handlers (they run between the scheduler's awaits)
\* ------------------------------------------------------------------------
\* mark_quali_done(user_id, race_id), from the "done_<race_id>" button
MarkQualiDone(u, r, o1, o2) ==
    /\ alive
    /\ ops < op_limit
    /\ ApplyStore(MarkQualiDoneOp(CurStore, u, r, o1, o2))
    /\ ops' = ops + 1
    /\ last_op' = << "mark_quali_done", u, r >>
    /\ UNCHANGED << schedVars, boot, race_calendar, sent_log, stop, failures,
                    calendar_file, calendar_tmp, op_limit >>

\* reset_user_status(user_id), from the "reset_..." buttons and /reset
ResetUserStatus(u, o) ==
    /\ alive
    /\ ops < op_limit
    /\ ApplyStore(ResetUserStatusOp(CurStore, u, o))
    /\ ops' = ops + 1
    /\ last_op' = << "reset_user_status", u, None >>
    /\ UNCHANGED << schedVars, boot, race_calendar, sent_log, stop, failures,
                    calendar_file, calendar_tmp, op_limit >>

\* toggle_notification(user_id, notification_type)
ToggleNotification(u, label, o1, o2) ==
    /\ alive
    /\ ops < op_limit
    /\ ApplyStore(ToggleNotificationOp(CurStore, u, label, o1, o2))
    /\ ops' = ops + 1
    /\ last_op' = << "toggle_notification", u, None >>
    /\ UNCHANGED << schedVars, boot, race_calendar, sent_log, stop, failures,
                    calendar_file, calendar_tmp, op_limit >>

\* handle_toggle_notification() for "Enable All" / "Disable All"; the log
\* keeps how many transport calls had been made when the handler ran
ToggleAll(u, value, o1, o2) ==
    /\ alive
    /\ ops < op_limit
    /\ ApplyStore(ToggleAllOp(CurStore, u, value, o1, o2))
    /\ ops' = ops + 1
    /\ last_op' = << "toggle_all", u, None, value, Len(sent_log) >>
    /\ UNCHANGED << schedVars, boot, race_calendar, sent_log, stop, failures,
                    calendar_file, calendar_tmp, op_limit >>

\* the future races sorted latest deadline first
NextRaceLatestFirst(t, cal) ==
    LET S == { r \in DOMAIN cal : cal[r].quali_close > t }
    IN SortByRank(S, [ r \in S |-> -cal[r].quali_close ])

\* cmd_status(), lines 120-141: the race whose qualification closes next
NextRace(t, cal) ==
    LET S == { r \in DOMAIN cal : cal[r].quali_close > t }
    IN SortByRank(S, [ r \in S |-> cal[r].quali_close ])

\* cmd_status(): /status sends the "manual" notification for the next race
CmdStatusWith(u, ok) ==
    /\ alive
    /\ ops < op_limit
    /\ u \in DOMAIN users_data
    /\ NextRace(now, race_calendar) # << >>
    /\ LET calls == SendQualiNotification(users_data, u,
                                          Head(NextRace(now, race_calendar)), "manual")
       IN /\ sent_log' = sent_log \o Stamp(calls, ok, now, FALSE)
          /\ IF ok THEN failures' = failures
                   ELSE failures < MaxFailures /\ failures' = failures + 1
    /\ ops' = ops + 1
    /\ last_op' = << "cmd_status", u, Head(NextRace(now, race_calendar)) >>
    /\ UNCHANGED << schedVars, boot, race_calendar, users_data, stop, diskVars >>

CmdStatus(u) == \E ok \in BOOLEAN : CmdStatusWith(u, ok)

\* ------------------------------------------------------------------------
\* The bot: scheduler, transport that may fail, probe that may answer, and
\* the handlers, started shortly before one of the season's moments
\* ------------------------------------------------------------------------
\* user 1 asks for a reminder 2 h before the deadline and was loaded with
\* the given completed_quali; user 2 keeps the defaults
BotUsers(done) ==
    [ u \in {1, 2} |->
        IF u = 1
        THEN UserRecord(done, DefaultNotificationPreferences,
                        << Slot(2 * SecondsPerHour), EmptySlot >>)
        ELSE UserRecord(None, DefaultNotificationPreferences, DefaultCustomNotifications) ]

\* the users who press buttons and send commands while the scheduler runs
Actors == {1}

\* the process starts: before the 2h window of race 1, before its start, and
\* as the polling window of race 2 opens
BootTimes ==
    LET close1 == SeasonCalendar[1].quali_close
        date1 == SeasonCalendar[1].date
    IN { close1 - 2 * SecondsPerHour - 6 * SecondsPerMinute,
         date1 - 2 * SecondsPerMinute,
         date1 + API_CHECK_START_HOURS * SecondsPerHour - SecondsPerMinute }

Init ==
    /\ now \in BootTimes
    /\ boot = now
    /\ race_calendar = SeasonCalendar
    /\ \E done \in {None} \cup DOMAIN SeasonCalendar : users_data = BotUsers(done)
    /\ stop = now + Horizon
    /\ op_limit = MaxOps
    /\ InitScheduler

Next ==
    \/ Decide
    \/ DeliverUser
    \/ FinishJob
    \/ \E u \in Actors, r \in DOMAIN race_calendar, o1, o2 \in SaveReturns :
            MarkQualiDone(u, r, o1, o2)
    \/ \E u \in Actors, o \in SaveReturns : ResetUserStatus(u, o)
    \/ \E u \in Actors, label \in Categories, o1, o2 \in SaveReturns :
            ToggleNotification(u, label, o1, o2)
    \/ \E u \in Actors : CmdStatus(u)

Spec == Init /\ [][Next]_vars

\* The scheduling loop with ticks that may raise.
TickStart == Decide \/ \E after_probe \in BOOLEAN : RaiseInDecide(after_probe)
TickDelivery == DeliverUser \/ FinishJob \/ RaiseInDelivery

NextLoop == TickStart \/ TickDelivery

\* The event loop always resumes the task: asyncio.sleep() ends, an awaited
\* call returns or raises.  This is weak fairness of the two halves of a
\* tick; for the first half it is written out, WF_vars(TickStart) with
\* ENABLED <<TickStart>>_vars replaced by its value, the guard of a tick.
TickStartFair ==
    \/ []<>~(pc = "decide" /\ now <= stop)
    \/ []<><<TickStart>>_vars

SpecLoop == Init /\ [][NextLoop]_vars /\ TickStartFair /\ WF_vars(TickDelivery)

\* ------------------------------------------------------------------------
\* The user store and the calendar cache alone: handlers whose saves may
\* fail or be cut short by the death of the process, and restarts
\* ------------------------------------------------------------------------
SaveOutcomes == SaveReturns \cup SaveKills

\* save_calendar(calendar) -> _save_calendar_to_file(calendar, CALENDAR_FILE);
\* cs is the cache: file, tmp, alive; raised tells the caller of the exception
SaveCalendarToFile(cs, calendar, outcome) ==
    CASE outcome = "ok" ->
           [ file |-> FileOf(DumpCalendar(calendar)), tmp |-> NoTemp, alive |-> TRUE,
             raised |-> FALSE ]
      [] outcome = "raises" ->
           [ file |-> cs.file, tmp |-> NoTemp, alive |-> TRUE, raised |-> TRUE ]
      [] outcome = "killed_writing" ->
           [ file |-> cs.file, tmp |-> TempOf(FALSE, << >>), alive |-> FALSE,
             raised |-> FALSE ]
      [] outcome = "killed_before_replace" ->
           [ file |-> cs.file, tmp |-> TempOf(TRUE, DumpCalendar(calendar)),
             alive |-> FALSE, raised |-> FALSE ]

\* only the first user is reset
ResetFirstOnly(st, order, os) ==
    IF order = << >> \/ ~st.alive THEN st
    ELSE ResetUserStatusOp(st, Head(order), os[Head(order)])

\* cmd_update() lines 187-190: reset_user_status() for every user, in the
\* order of list(users_data.keys()); os gives the end of each user's save
RECURSIVE ResetAll(_, _, _)
ResetAll(st, order, os) ==
    IF order = << >> \/ ~st.alive THEN st
    ELSE ResetAll(ResetUserStatusOp(st, Head(order), os[Head(order)]), Tail(order), os)

\* cmd_start(): /start looks the user up with get_user_status()
CmdStart(u, o) ==
    /\ alive
    /\ ops < op_limit
    /\ ApplyStore(GetUserStatus(CurStore, u, o))
    /\ ops' = ops + 1
    /\ last_op' = << "cmd_start", u, None >>
    /\ UNCHANGED << schedVars, boot, race_calendar, sent_log, stop, failures,
                    calendar_file, calendar_tmp, op_limit >>

\* callback.data.split("_"): the callback data as the list of its parts
CallbackData ==
    { << "done", "1" >>, << "done", "2" >>, << "done", "invalid" >>, << "done", "" >> }

\* an int() that reads anything it cannot parse as 0
ParseIntLenient(part) ==
    CASE part = "1" -> [ ok |-> TRUE, value |-> 1 ]
      [] part = "2" -> [ ok |-> TRUE, value |-> 2 ]
      [] OTHER -> [ ok |-> TRUE, value |-> 0 ]

\* int(part): the number a decimal string stands for, else ValueError
ParseInt(part) ==
    CASE part = "1" -> [ ok |-> TRUE, value |-> 1 ]
      [] part = "2" -> [ ok |-> TRUE, value |-> 2 ]
      [] OTHER -> [ ok |-> FALSE, value |-> None ]

\* handle_quali_done(callback): the "done_<race_id>" button.  last_op keeps
\* the race id (None if there is none), the callback.answer() calls made and
\* the callback data.
HandleQualiDone(u, data, o1, o2) ==
    /\ alive
    /\ ops < op_limit
    /\ LET race_id == IF Len(data) < 2 THEN [ ok |-> FALSE, value |-> None ]
                      ELSE ParseInt(data[2])
           st == IF race_id.ok THEN MarkQualiDoneOp(CurStore, u, race_id.value, o1, o2)
                 ELSE CurStore
       IN /\ ApplyStore(st)
          /\ last_op' = << "handle_quali_done", u, race_id.value,
                           IF race_id.ok THEN << "done" >> ELSE << "invalid race id" >>,
                           data >>
    /\ ops' = ops + 1
    /\ UNCHANGED << schedVars, boot, race_calendar, sent_log, stop, failures,
                    calendar_file, calendar_tmp, op_limit >>

\* the custom-reminder handlers (callbacks.py lines 668 and 689, states.py
\* line 91): set_custom_notification(user_id, slot, hours_before).  last_op
\* keeps the arguments and the success flag (1: True, 0: False).
SetCustomNotification(u, slot, hours_before, o1, o2) ==
    /\ alive
    /\ ops < op_limit
    /\ LET res == SetCustomNotificationOp(CurStore, u, slot, hours_before, o1, o2)
       IN /\ ApplyStore(res.st)
          /\ last_op' = << "set_custom_notification", u,
                           IF res.success THEN 1 ELSE 0, slot, hours_before >>
    /\ ops' = ops + 1
    /\ UNCHANGED << schedVars, boot, race_calendar, sent_log, stop, failures,
                    calendar_file, calendar_tmp, op_limit >>

\* cmd_update() run by an admin: update_calendar() with the calendar parsed
\* from the API's answer (empty: nothing valid, or no answer), then every
\* user's completed_quali is reset.  update_calendar() saves before it
\* replaces race_calendar and catches the exception of a failed save.
CmdUpdate(calendar, oc, os) ==
    /\ alive
    /\ ops < op_limit
    /\ LET cs == IF DOMAIN calendar = {}
                 THEN [ file |-> calendar_file, tmp |-> calendar_tmp, alive |-> TRUE,
                        raised |-> TRUE ]
                 ELSE SaveCalendarToFile([ file |-> calendar_file, tmp |-> calendar_tmp,
                                           alive |-> TRUE ], calendar, oc)
           st == ResetAll([ CurStore EXCEPT !.alive = cs.alive ],
                          IdOrder(DOMAIN users_data), os)
       IN /\ calendar_file' = cs.file
          /\ calendar_tmp' = cs.tmp
          /\ race_calendar' = IF cs.alive /\ ~cs.raised THEN calendar ELSE race_calendar
          /\ ApplyStore(st)
          /\ last_op' = << "cmd_update", NoUser, None,
                           IF DOMAIN calendar = {} THEN "not saved" ELSE oc >>
    /\ ops' = ops + 1
    /\ UNCHANGED << schedVars, boot, sent_log, stop, failures, op_limit >>

\* The process is started again: user_data.py line 261 and bot.main() lines
\* 41 and 57 load the two files into empty module state; checker.py lines
\* 44-46 start with an empty notify_history and no probe time; the first tick
\* is due at once.  The files, temp files included, are as they were left.
Restart ==
    /\ users_data' = LoadUsersData(<< >>, users_file)
    /\ race_calendar' = LoadCalendarSilent(<< >>, calendar_file)
    /\ notify_history' = << >>
    /\ last_api_check_time' = None
    /\ notifications_to_send' = << >>
    /\ pending' = << >>
    /\ iter_len' = 0
    /\ awaiting' = << >>
    /\ lock_held' = FALSE
    /\ pc' = "decide"
    /\ next_interval' = CHECK_INTERVAL_NORMAL_SECONDS
    /\ alive' = TRUE
    /\ boot' = now
    /\ last_op' = << "restart", NoUser, None >>
    /\ last_save' = << >>
    /\ UNCHANGED << now, emitted, sent_log, probe_log, stop, ops, failures, users_file,
                    users_tmp, calendar_file, calendar_tmp, op_limit, tick_errors >>

\* users of the store: 1 and 2 may be on file, 3 never used the bot
StoreUsers == {1, 2, 3}

\* records as an earlier version of the bot wrote them: user 1 before the
\* category race_results existed, user 2 before there were toggles and custom
\* reminders
LegacyUsers ==
    [ u \in {1, 2} |->
        IF u = 1
        THEN [ completed_quali |-> 1,
               notifications |-> [ c \in Categories \ { "race_results" } |-> c # "2h" ],
               custom_notifications |-> << Slot(2 * SecondsPerHour), EmptySlot >> ]
        ELSE [ completed_quali |-> None ] ]

\* records lacking one field each: user 1 written before there were custom
\* reminders, user 2 with custom reminders and no toggles
PartialUsers ==
    [ u \in {1, 2} |->
        IF u = 1
        THEN [ completed_quali |-> 2,
               notifications |-> [ c \in Categories |-> c # "race_live" ] ]
        ELSE [ completed_quali |-> None,
               custom_notifications |-> << EmptySlot, Slot(3 * SecondsPerHour) >> ] ]

\* what USERS_FILE holds when the process starts
StoredUserFiles ==
    { NoFile, FileOf(DumpUsers(LegacyUsers)), FileOf(DumpUsers(PartialUsers)),
      FileOf(DumpUsers(BotUsers(None))) }

\* what /update may get from the API: nothing valid, or the one race left
\* of the season (ids are given anew from 1)
FetchedCalendars == { << >>, [ r \in {1} |-> SeasonCalendar[2] ] }

\* slot indices and offsets (seconds) the custom-reminder handlers may pass
SlotInputs == { -1, 0, 1, 2 }
HoursInputs ==
    { None, CUSTOM_NOTIF_MIN_SECONDS - SecondsPerMinute, CUSTOM_NOTIF_MIN_SECONDS,
      2 * SecondsPerHour, CUSTOM_NOTIF_MAX_HOURS * SecondsPerHour,
      CUSTOM_NOTIF_MAX_HOURS * SecondsPerHour + SecondsPerMinute }

InitStore ==
    /\ now = 0
    /\ boot = 0
    /\ stop = 0
    /\ pc = "decide"
    /\ race_calendar = SeasonCalendar
    /\ users_file \in StoredUserFiles
    /\ users_data = LoadUsersData(<< >>, users_file)
    /\ users_tmp = NoTemp
    /\ calendar_file = FileOf(DumpCalendar(race_calendar))
    /\ calendar_tmp = NoTemp
    /\ alive = TRUE
    /\ op_limit = MaxStoreOps
    /\ notify_history = << >>
    /\ last_api_check_time = None
    /\ notifications_to_send = << >>
    /\ pending = << >>
    /\ iter_len = 0
    /\ awaiting = << >>
    /\ lock_held = FALSE
    /\ next_interval = CHECK_INTERVAL_NORMAL_SECONDS
    /\ emitted = << >>
    /\ sent_log = << >>
    /\ probe_log = << >>
    /\ ops = 0
    /\ failures = 0
    /\ last_op = << "none", NoUser, None >>
    /\ last_save = << >>
    /\ tick_errors = << >>

NextStore ==
    \/ \E u \in StoreUsers, o \in SaveOutcomes : CmdStart(u, o)
    \/ \E u \in StoreUsers, r \in DOMAIN race_calendar, o1, o2 \in SaveOutcomes :
            MarkQualiDone(u, r, o1, o2)
    \/ \E u \in StoreUsers, data \in CallbackData, o1, o2 \in SaveReturns :
            HandleQualiDone(u, data, o1, o2)
    \/ \E u \in StoreUsers, o \in SaveOutcomes : ResetUserStatus(u, o)
    \/ \E u \in StoreUsers, label \in { "2h", "race_results" }, o1, o2 \in SaveOutcomes :
            ToggleNotification(u, label, o1, o2)
    \/ \E u \in StoreUsers, slot \in SlotInputs, hours_before \in HoursInputs,
          o1, o2 \in SaveOutcomes :
            SetCustomNotification(u, slot, hours_before, o1, o2)
    \/ \E calendar \in FetchedCalendars, oc \in SaveOutcomes,
          os \in [ DOMAIN users_data -> SaveOutcomes ] :
            CmdUpdate(calendar, oc, os)
    \/ Restart

SpecStore == InitStore /\ [][NextStore]_vars

\* The bot restarted once while it runs (a deploy, a crash and the
\* supervisor): the first process is the one whose run ends at `stop`.
RestartOnce ==
    /\ stop = boot + Horizon
    /\ now > boot
    /\ Restart

NextRestart == Decide \/ DeliverUser \/ FinishJob \/ RestartOnce

SpecRestart == Init /\ [][NextRestart]_vars

\* ------------------------------------------------------------------------
\* The scheduler beside a registration: /start from a user the bot does not
\* know yet, and user files written by an earlier version of the bot
\* ------------------------------------------------------------------------
NewUser == 3

InitUsers ==
    /\ now \in BootTimes
    /\ boot = now
    /\ race_calendar = SeasonCalendar
    /\ stop = now + Horizon
    /\ op_limit = MaxOps
    /\ pc = "decide"
    /\ users_file \in { FileOf(DumpUsers(LegacyUsers)), FileOf(DumpUsers(BotUsers(None))) }
    /\ users_data = LoadUsersData(<< >>, users_file)
    /\ users_tmp = NoTemp
    /\ calendar_file = FileOf(DumpCalendar(race_calendar))
    /\ calendar_tmp = NoTemp
    /\ alive = TRUE
    /\ notify_history = << >>
    /\ last_api_check_time = None
    /\ notifications_to_send = << >>
    /\ pending = << >>
    /\ iter_len = 0
    /\ awaiting = << >>
    /\ lock_held = FALSE
    /\ next_interval = CHECK_INTERVAL_NORMAL_SECONDS
    /\ emitted = << >>
    /\ sent_log = << >>
    /\ probe_log = << >>
    /\ ops = 0
    /\ failures = 0
    /\ last_op = << "none", NoUser, None >>
    /\ last_save = << >>
    /\ tick_errors = << >>

\* the event loop runs a handler while the scheduler task is suspended: in
\* asyncio.sleep() between two ticks, or in the send it awaits inside the
\* loop over the users
RegisterWhileSuspended ==
    /\ pc = "decide" \/ iter_len # 0
    /\ \E o \in SaveReturns : CmdStart(NewUser, o)

NextUsers == Decide \/ DeliverUser \/ FinishJob \/ DictChangedSize \/ RegisterWhileSuspended

SpecUsers == InitUsers /\ [][NextUsers]_vars

\* ------------------------------------------------------------------------
\* The scheduler beside /update: a day of ticks, from the 2h reminder of
\* race 1 to the 2h reminder of race 2, and one calendar refresh
\* ------------------------------------------------------------------------
\* no tick starts more than RefreshHorizon seconds after the first one
RefreshHorizon == SecondsPerDay + Horizon

\* what the API lists once race 1 is off the calendar: parse_gpro_events()
\* numbers the races it finds from 1
RemainingRaces == [ r \in {1} |-> SeasonCalendar[2] ]

InitRefresh ==
    /\ now = SeasonCalendar[1].quali_close - 2 * SecondsPerHour - 6 * SecondsPerMinute
    /\ boot = now
    /\ race_calendar = SeasonCalendar
    /\ users_data = BotUsers(None)
    /\ stop = now + RefreshHorizon
    /\ op_limit = MaxOps
    /\ InitScheduler

\* /update by an admin, the API answering with the races left
Refresh == CmdUpdate(RemainingRaces, "ok", [ u \in DOMAIN users_data |-> "ok" ])

NextRefresh == DecideSilent \/ DeliverUserOk \/ FinishJob \/ Refresh

SpecRefresh == InitRefresh /\ [][NextRefresh]_vars

\* ------------------------------------------------------------------------
\* /update while a tick awaits the probe: the process starts a minute
\* before the polling window of race 2 opens, with a cached calendar
\* ------------------------------------------------------------------------
\* what the API lists when the cached calendar had race 1 on the wrong day:
\* it was run a day earlier
CorrectedCalendar ==
    [ r \in {1, 2} |->
        IF r = 1 THEN Race(SeasonCalendar[1].date - SecondsPerDay) ELSE SeasonCalendar[2] ]

\* no tick starts more than ProbeHorizon seconds after the first one: the
\* polling window and the fallback that ends it are covered
ProbeHorizon == API_CHECK_END_SECONDS - API_CHECK_START_HOURS * SecondsPerHour + Horizon

InitProbe ==
    /\ now = SeasonCalendar[1].date + API_CHECK_START_HOURS * SecondsPerHour
             - SecondsPerMinute
    /\ boot = now
    /\ race_calendar = SeasonCalendar
    /\ users_data = BotUsers(None)
    /\ stop = now + ProbeHorizon
    /\ op_limit = MaxOps
    /\ InitScheduler

\* cmd_update() does not take notification_lock: its swap of the calendar
\* can fall into the tick's await
RefreshDuringProbe ==
    /\ pc = "probe"
    /\ \E calendar \in { RemainingRaces, CorrectedCalendar } :
          CmdUpdate(calendar, "ok", [ u \in DOMAIN users_data |-> "ok" ])

NextProbe ==
    \/ DecideWithoutProbe
    \/ ProbeBegin
    \/ \E api_result \in ProbeAnswers(now, race_calendar) : ProbeEnd(api_result)
    \/ DeliverUserOk
    \/ FinishJob
    \/ RefreshDuringProbe

SpecProbe == InitProbe /\ [][NextProbe]_vars

\* ------------------------------------------------------------------------
\* The last two hours before the deadline of race 1: the '2h' window, a
\* custom reminder 1.5 h before, the '10min' window
\* ------------------------------------------------------------------------
\* user 1 asks for a reminder 1.5 h before the deadline in the first slot;
\* user 2 has no custom reminder
TriggerUsers ==
    [ u \in {1, 2} |->
        IF u = 1
        THEN UserRecord(None, DefaultNotificationPreferences,
                        << Slot(90 * SecondsPerMinute), EmptySlot >>)
        ELSE UserRecord(None, DefaultNotificationPreferences, DefaultCustomNotifications) ]

\* the first tick is less than one interval before the '2h' window opens,
\* at any second; no tick starts after the deadline
InitTriggers ==
    /\ now \in { SeasonCalendar[1].quali_close - 2 * SecondsPerHour
                    - 5 * SecondsPerMinute - phase : phase \in 1..(MaxPhase + 1) }
    /\ boot = now
    /\ race_calendar = SeasonCalendar
    /\ users_data = TriggerUsers
    /\ stop = SeasonCalendar[1].quali_close
    /\ op_limit = 0
    /\ InitScheduler

SpecTriggers == InitTriggers /\ [][NextSched]_vars

\* ------------------------------------------------------------------------
\* A month of ticks: the records of race 1 reach the retention age
\* ------------------------------------------------------------------------
\* no tick starts after RetentionEnd: the first records of race 1 are then
\* older than the retention
RetentionEnd == NOTIFICATION_HISTORY_RETENTION_DAYS * SecondsPerDay + SecondsPerHour

InitRetention ==
    /\ now \in { 0, CHECK_INTERVAL_FAST_SECONDS, MaxPhase }
    /\ boot = now
    /\ race_calendar = SeasonCalendar
    /\ users_data = SchedUsers
    /\ stop = RetentionEnd
    /\ op_limit = 0
    /\ InitScheduler

SpecRetention == InitRetention /\ [][NextSched]_vars

\* ------------------------------------------------------------------------
\* "Disable All" beside the scheduler, as the polling window of race 2
\* opens, with user files written by this and by an earlier version
\* ------------------------------------------------------------------------
InitMute ==
    /\ now = SeasonCalendar[1].date + API_CHECK_START_HOURS * SecondsPerHour
             - SecondsPerMinute
    /\ boot = now
    /\ race_calendar = SeasonCalendar
    /\ stop = now + Horizon
    /\ op_limit = MaxOps
    /\ pc = "decide"
    /\ users_file \in { FileOf(DumpUsers(LegacyUsers)), FileOf(DumpUsers(BotUsers(None))) }
    /\ users_data = LoadUsersData(<< >>, users_file)
    /\ users_tmp = NoTemp
    /\ calendar_file = FileOf(DumpCalendar(race_calendar))
    /\ calendar_tmp = NoTemp
    /\ alive = TRUE
    /\ notify_history = << >>
    /\ last_api_check_time = None
    /\ notifications_to_send = << >>
    /\ pending = << >>
    /\ iter_len = 0
    /\ awaiting = << >>
    /\ lock_held = FALSE
    /\ next_interval = CHECK_INTERVAL_NORMAL_SECONDS
    /\ emitted = << >>
    /\ sent_log = << >>
    /\ probe_log = << >>
    /\ ops = 0
    /\ failures = 0
    /\ last_op = << "none", NoUser, None >>
    /\ last_save = << >>
    /\ tick_errors = << >>

NextMute ==
    \/ Decide
    \/ DeliverUserOk
    \/ FinishJob
    \/ \E u \in DOMAIN users_data, value \in BOOLEAN, o1, o2 \in SaveReturns :
            ToggleAll(u, value, o1, o2)

SpecMute == InitMute /\ [][NextMute]_vars

\* ------------------------------------------------------------------------
\* A user who changes custom slots around the 2h mark of race 1
\* ------------------------------------------------------------------------
\* the offsets the user types: clear the slot, 2 h, 1 h 50 min
SlotOffsets == { None, 2 * SecondsPerHour, 110 * SecondsPerMinute }

InitSlots ==
    /\ now \in { SeasonCalendar[1].quali_close - 2 * SecondsPerHour - 5 * SecondsPerMinute - phase :
                  phase \in { SecondsPerMinute, 4 * SecondsPerMinute } }
    /\ boot = now
    /\ race_calendar = SeasonCalendar
    /\ users_data = BotUsers(None)
    /\ stop = now + Horizon
    /\ op_limit = MaxStoreOps
    /\ InitScheduler

NextSlots ==
    \/ DecideSilent
    \/ DeliverUserOk
    \/ FinishJob
    \/ \E u \in Actors, slot \in 0..(CUSTOM_NOTIF_MAX_SLOTS - 1), hours_before \in SlotOffsets,
          o1, o2 \in SaveReturns :
            SetCustomNotification(u, slot, hours_before, o1, o2)

SpecSlots == InitSlots /\ [][NextSlots]_vars

\* ------------------------------------------------------------------------
\* The "re-enable" buttons of earlier messages, pressed while the
\* scheduler runs
\* ------------------------------------------------------------------------
\* callback data "reset_all", "reset_1", "reset_2", "reset_invalid"
ResetData ==
    { << "reset", "all" >>, << "reset", "1" >>, << "reset", "2" >>, << "reset", "invalid" >> }

\* handle_reset(): "reset_all" resets; otherwise the race id is parsed and,
\* if it is a number, reset_user_status(callback.from_user.id) is called
HandleReset(u, data, o) ==
    /\ alive
    /\ ops < op_limit
    /\ LET race_id == IF data = << "reset", "all" >> THEN [ ok |-> TRUE, value |-> None ]
                      ELSE IF Len(data) < 2 THEN [ ok |-> FALSE, value |-> None ]
                      ELSE ParseInt(data[2])
           st == IF race_id.ok THEN ResetUserStatusOp(CurStore, u, o) ELSE CurStore
       IN /\ ApplyStore(st)
          /\ last_op' = << "handle_reset", u, race_id.value, data >>
    /\ ops' = ops + 1
    /\ UNCHANGED << schedVars, boot, race_calendar, sent_log, stop, failures,
                    calendar_file, calendar_tmp, op_limit >>

NextReset ==
    \/ Decide
    \/ DeliverUserOk
    \/ FinishJob
    \/ \E u \in Actors, data \in ResetData, o \in SaveReturns : HandleReset(u, data, o)

SpecReset == Init /\ [][NextReset]_vars

\* ------------------------------------------------------------------------
\* /update sent by the admin and by other users
\* ------------------------------------------------------------------------
\* config.py: the ids listed in ADMIN_USER_ID
ADMIN_USER_IDS == { 1 }

\* cmd_update(): anyone but an admin is answered "admin-only" and nothing
\* else happens
CmdUpdateFrom(sender, calendar, oc, os) ==
    IF sender \in ADMIN_USER_IDS
    THEN CmdUpdate(calendar, oc, os)
    ELSE /\ alive
         /\ ops < op_limit
         /\ ops' = ops + 1
         /\ last_op' = << "cmd_update", sender, None, "admin-only" >>
         /\ UNCHANGED << schedVars, diskVars, boot, race_calendar, users_data, sent_log,
                         stop, failures >>

NextAdmin ==
    \/ \E u \in StoreUsers, o \in SaveReturns : CmdStart(u, o)
    \/ \E u \in StoreUsers, r \in DOMAIN race_calendar, o1, o2 \in SaveReturns :
            MarkQualiDone(u, r, o1, o2)
    \/ \E sender \in StoreUsers, calendar \in FetchedCalendars, oc \in SaveOutcomes,
          os \in [ DOMAIN users_data -> SaveOutcomes ] :
            CmdUpdateFrom(sender, calendar, oc, os)

SpecAdmin == InitStore /\ [][NextAdmin]_vars

\* ------------------------------------------------------------------------
\* Properties
\* ------------------------------------------------------------------------
\* how often a key was put in a due list
EmittedCount(key) == Cardinality({ i \in 1..Len(emitted) : emitted[i][1] = key })

\* the tick times at which a key was put in a due list
EmittedAt(key) == { emitted[i][2] : i \in { j \in 1..Len(emitted) : emitted[j][1] = key } }

\* the jobs a step adds to the due-list log
NewlyEmitted == { emitted'[i] : i \in (Len(emitted) + 1)..Len(emitted') }

\* the transport calls a step adds to the log
NewCalls == { sent_log'[i] : i \in (Len(sent_log) + 1)..Len(sent_log') }

\* a step that is the decide phase of a tick
IsDecideStep == pc = "decide" /\ (pc' = "send" \/ now' # now)

\* the last second of the window of a fixed-offset trigger of race r
WindowEnd(r, w) == race_calendar[r].quali_close - w.target + w.tol

\* C1: a key that is in notify_history is never put in a due list by the
\* decide phase of a tick, whatever the trigger family.
C1_NoReEmission ==
    [][ \A e \in NewlyEmitted : e[1] \notin DOMAIN notify_history ]_vars

\* a '2h' record was written in an earlier tick, the tick just done was
\* still inside the 2h window, and the job was put in a due list only once
C1_Witness ==
    /\ pc = "decide"
    /\ \E r \in DOMAIN race_calendar :
         LET w == NOTIFICATION_WINDOWS[3]
             k == HistoryKey(NoUser, r, w.label)
         IN /\ k \in DOMAIN notify_history
            /\ notify_history[k] < now - next_interval
            /\ WithinTolerance(race_calendar[r].quali_close - (now - next_interval),
                               w.target, w.tol)
            /\ EmittedCount(k) = 1

\* C2: an event whose deadline is more than 48 h 6 min after the first tick
\* gets its '48h', '24h' and '2h' jobs, each exactly once: never twice, and
\* once by the time its window has passed.
C2_FixedOffsetsExactlyOnce ==
    \A r \in DOMAIN race_calendar : \A i \in 1..3 :
        LET w == NOTIFICATION_WINDOWS[i]
            k == HistoryKey(NoUser, r, w.label)
        IN race_calendar[r].quali_close - boot > 48 * SecondsPerHour + 6 * SecondsPerMinute
           => /\ EmittedCount(k) <= 1
              /\ now > WindowEnd(r, w) => EmittedCount(k) = 1

\* the deadline of such an event has passed and each of the three jobs was
\* emitted once
C2_Witness ==
    \E r \in DOMAIN race_calendar :
        /\ race_calendar[r].quali_close - boot > 48 * SecondsPerHour + 6 * SecondsPerMinute
        /\ now > race_calendar[r].quali_close
        /\ \A i \in 1..3 : EmittedCount(HistoryKey(NoUser, r, NOTIFICATION_WINDOWS[i].label)) = 1

C4_DueExactlyInTolerance ==
    [][ IsDecideStep =>
          \A r \in DOMAIN race_calendar : \A i \in 1..Len(NOTIFICATION_WINDOWS) :
              LET w == NOTIFICATION_WINDOWS[i]
                  k == HistoryKey(NoUser, r, w.label)
              IN k \notin DOMAIN notify_history
                 => ( << k, now >> \in NewlyEmitted
                      <=> Abs(race_calendar[r].quali_close - now - w.target) <= w.tol )
      ]_vars

\* the automatic call, if any, a step hands to the transport for a user who
\* has marked that race done
CallsToMarkedUser(labels) ==
    { c \in NewCalls : /\ c.auto
                       /\ c.label \in labels
                       /\ users_data[c.user].completed_quali = c.race_id }

\* a /status step hands exactly one call to the transport, for the
\* requester and the next race, in the "disabled" wording exactly when the
\* requester has marked that race done
OnDemandAnswered ==
    (ops' = ops + 1 /\ last_op'[1] = "cmd_status")
    => /\ Len(sent_log') = Len(sent_log) + 1
       /\ \A c \in NewCalls :
            /\ ~c.auto
            /\ c.user = last_op'[2]
            /\ c.race_id = last_op'[3]
            /\ c.variant = "disabled" <=> users_data[c.user].completed_quali = c.race_id

AllLabels == QualiLabels \cup {"race_live", "race_replay", "race_results"}

C6_FallbackOpensExactlyOnce ==
    \A r \in DOMAIN race_calendar :
        (r # 1 /\ (r - 1) \in DOMAIN race_calendar
               /\ boot <= race_calendar[r - 1].date + API_CHECK_END_SECONDS)
        => LET k == HistoryKey(NoUser, r, "opens_soon")
               last == race_calendar[r - 1].date + API_CHECK_END_SECONDS
                       + FALLBACK_TOLERANCE_MINUTES * SecondsPerMinute
           IN /\ EmittedCount(k) <= 1
              /\ \A t \in EmittedAt(k) :
                    /\ t - race_calendar[r - 1].date > API_CHECK_END_SECONDS
                    /\ t <= last
              /\ now > last => EmittedCount(k) = 1

\* the fallback window of race 2 has passed, the probe was made and the
\* opens_soon job was emitted once
C6_Witness ==
    /\ probe_log # << >>
    /\ now > race_calendar[1].date + API_CHECK_END_SECONDS
             + FALLBACK_TOLERANCE_MINUTES * SecondsPerMinute
    /\ EmittedCount(HistoryKey(NoUser, 2, "opens_soon")) = 1

\* the successful calls of a user's custom slot for a race
CustomReceived(u, r, s) ==
    { i \in 1..Len(sent_log) :
        /\ sent_log[i].user = u /\ sent_log[i].race_id = r
        /\ sent_log[i].label = CustomLabel(s) /\ sent_log[i].ok }

\* C7: each user with an enabled custom offset receives the custom
\* notification of an event at most once, only in a tick within 5 min of
\* that user's own offset, and exactly once when that window has passed
\* since the first tick, whatever the other users' slots have recorded.
C7_CustomPerUser ==
    \A u \in DOMAIN users_data : \A s \in 1..Len(users_data[u].custom_notifications) :
      \A r \in DOMAIN race_calendar :
        LET c == users_data[u].custom_notifications[s]
            tol == CUSTOM_NOTIF_TOLERANCE_MIN * SecondsPerMinute
            close == race_calendar[r].quali_close
        IN (c.enabled /\ c.hours_before # None)
           => /\ Cardinality(CustomReceived(u, r, s)) <= 1
              /\ \A i \in CustomReceived(u, r, s) :
                    Abs(close - sent_log[i].t - c.hours_before) <= tol
              /\ (boot < close - c.hours_before - tol /\ now > close - c.hours_before + tol)
                 => Cardinality(CustomReceived(u, r, s)) = 1

\* users 1 and 2 have different offsets in the same slot and each has
\* received the custom notification of race 1, user 2 first
C7_Witness ==
    /\ users_data[1].custom_notifications[1].hours_before
         # users_data[2].custom_notifications[1].hours_before
    /\ \E i, j \in 1..Len(sent_log) :
         /\ i < j
         /\ sent_log[i].user = 2 /\ sent_log[i].label = "custom_1" /\ sent_log[i].race_id = 1
         /\ sent_log[j].user = 1 /\ sent_log[j].label = "custom_1" /\ sent_log[j].race_id = 1
         /\ sent_log[i].ok /\ sent_log[j].ok

\* C8: a transport failure leaves the rest of the pass in place (the
\* remaining users of the job, the remaining jobs), and when the tick is
\* over every job it emitted has its dedup record and was attempted for
\* every user whose record allows it (here: the users who never change
\* their record).
C8_FailureIsolated ==
    /\ [][ (\E c \in NewCalls : c.auto /\ ~c.ok)
           => /\ pc' = "send"
              /\ notifications_to_send' = notifications_to_send
              /\ pending' = Tail(pending) ]_vars
    /\ [](pc = "decide" =>
            \A i \in 1..Len(emitted) :
                LET k == emitted[i][1]
                IN /\ k \in DOMAIN notify_history
                   /\ k[1] = NoUser =>
                        \A u \in DOMAIN users_data \ Actors :
                            \E j \in 1..Len(sent_log) :
                                /\ sent_log[j].user = u /\ sent_log[j].race_id = k[2]
                                /\ sent_log[j].label = k[3] /\ sent_log[j].t = emitted[i][2])

\* the call to user 1 failed; user 2 was attempted for the same job, a
\* later job of the same tick was attempted too, and the tick is over with
\* the failed job's record written
C8_Witness ==
    /\ pc = "decide"
    /\ \E i, j, l \in 1..Len(sent_log) :
         /\ i < j /\ j < l
         /\ sent_log[i].auto /\ ~sent_log[i].ok /\ sent_log[i].user = 1
         /\ sent_log[j].user = 2 /\ sent_log[j].label = sent_log[i].label
         /\ sent_log[j].race_id = sent_log[i].race_id /\ sent_log[j].t = sent_log[i].t
         /\ sent_log[l].t = sent_log[i].t /\ sent_log[l].label # sent_log[i].label
         /\ HistoryKey(NoUser, sent_log[i].race_id, sent_log[i].label) \in DOMAIN notify_history

\* C9: a call of a broadcast job goes to a user whose toggle for the job's
\* label is on when the call is made, a call of a custom job goes to the
\* user of its key, and no user gets two calls of the same job.
C9_OnlyEnabledOnlyOwner ==
    /\ [][ \A c \in NewCalls :
             c.auto =>
               LET job == Head(notifications_to_send)
               IN /\ c.label = job.label /\ c.race_id = job.race_id
                  /\ IF job.type = "custom"
                     THEN c.user = job.target_user_id /\ c.user = job.history_key[1]
                     ELSE users_data[c.user].notifications[c.label] ]_vars
    /\ [](\A i, j \in 1..Len(sent_log) :
            (/\ i < j /\ sent_log[i].auto /\ sent_log[j].auto
             /\ sent_log[i].user = sent_log[j].user /\ sent_log[i].label = sent_log[j].label
             /\ sent_log[i].race_id = sent_log[j].race_id) => sent_log[i].t # sent_log[j].t)

\* user 1 has '2h' off and a custom slot: the '2h' job of race 1 went to
\* user 2 only, the custom job to user 1 only
C9_Witness ==
    /\ ~users_data[1].notifications["2h"]
    /\ HistoryKey(NoUser, 1, "2h") \in DOMAIN notify_history
    /\ HistoryKey(1, 1, "custom_1") \in DOMAIN notify_history
    /\ \A i \in 1..Len(sent_log) :
         /\ sent_log[i].label = "2h" => sent_log[i].user = 2
         /\ sent_log[i].label = "custom_1" => sent_log[i].user = 1
    /\ \E i, j \in 1..Len(sent_log) : sent_log[i].label = "2h" /\ sent_log[j].label = "custom_1"

C11_ProbeOnlyInPollingWindow ==
    [][ probe_log' # probe_log
        => \E r \in DOMAIN race_calendar :
              /\ r # 1
              /\ (r - 1) \in DOMAIN race_calendar
              /\ << NoUser, r, "opens_soon" >> \notin DOMAIN notify_history
              /\ now - race_calendar[r - 1].date >= 2 * 3600
              /\ now - race_calendar[r - 1].date <= 3 * 3600 + 1800 ]_vars

\* one probe confirmed race 2, its opens_soon job is recorded, and a tick
\* inside the polling window more than 10 min after that probe has gone by
\* without another probe
C11_Witness ==
    /\ Len(probe_log) = 1
    /\ << NoUser, 2, "opens_soon" >> \in DOMAIN notify_history
    /\ pc = "decide"
    /\ now - CHECK_INTERVAL_NORMAL_SECONDS - probe_log[1] >= 600
    /\ now - race_calendar[1].date <= 3 * 3600 + 1800

\* some race starts no more than 10 min after t and no more than 5 min
\* before it
RaceNear(t) ==
    \E r \in DOMAIN race_calendar :
        /\ race_calendar[r].date - t >= -(5 * 60)
        /\ race_calendar[r].date - t <= 10 * 60

\* C13: a tick that completes chooses 60 s exactly when some race starts
\* between 5 min before and 10 min after the tick time, 300 s otherwise, and
\* the next tick comes that many seconds later.
C13_IntervalRule ==
    /\ [][ IsDecideStep => next_interval' = (IF RaceNear(now) THEN 60 ELSE 300) ]_vars
    /\ [][ now' # now => /\ pc' = "decide"
                         /\ now' = now + next_interval'
                         /\ next_interval' = (IF RaceNear(now) THEN 60 ELSE 300) ]_vars

\* the normal ticks of this run reached race 1 exactly 10 min before its
\* start, fast ticks followed, and the tick exactly 5 min after the start
\* still chose the fast interval
C13_Witness ==
    /\ pc = "decide"
    /\ (race_calendar[1].date - 10 * 60 - boot) % 300 = 0
    /\ next_interval = 60
    /\ (now - 60) - race_calendar[1].date = 5 * 60

\* C12: a tick that raises, in the decide phase or during delivery, ends
\* with the loop waiting for the next tick 300 s later, and the loop goes on
\* ticking to the end of the run.
C12_LoopSurvivesExceptions ==
    /\ [][ tick_errors' # tick_errors
           => /\ pc' = "decide"
              /\ next_interval' = 300
              /\ now' = now + 300 ]_vars
    /\ <>(pc = "decide" /\ now > stop)

\* a tick raised during delivery and a later one in the decide phase, and
\* the loop has gone on to the end of the run
C12_Witness ==
    /\ pc = "decide"
    /\ now > stop
    /\ \E i, j \in 1..Len(tick_errors) :
         /\ i < j
         /\ tick_errors[i][1] = "send"
         /\ tick_errors[j][1] = "decide"

\* C16: a /status request hands exactly one message to the transport, for
\* the requester and the race with the smallest future deadline, in the
\* "already handled" wording exactly when the requester's completed_quali is
\* that race, whatever notify_history holds, and changes neither
\* notify_history nor the user records.
C16_StatusOnDemand ==
    [][ (ops' = ops + 1 /\ last_op'[1] = "cmd_status")
        => /\ Len(sent_log') = Len(sent_log) + 1
           /\ LET c == sent_log'[Len(sent_log')]
              IN /\ c.user = last_op'[2]
                 /\ ~c.auto
                 /\ c.label = "manual"
                 /\ race_calendar[c.race_id].quali_close > now
                 /\ \A r \in DOMAIN race_calendar :
                      race_calendar[r].quali_close > now
                      => race_calendar[c.race_id].quali_close <= race_calendar[r].quali_close
                 /\ (c.variant = "disabled") = (users_data[c.user].completed_quali = c.race_id)
                 /\ c.variant \in { "disabled", "normal" }
           /\ notify_history' = notify_history
           /\ users_data' = users_data ]_vars

\* /status was answered for race 1 in the normal wording although the '2h'
\* job of race 1 had already been sent to the requester and recorded
C16_Witness ==
    /\ last_op[1] = "cmd_status"
    /\ << NoUser, 1, "2h" >> \in DOMAIN notify_history
    /\ \E i, j \in 1..Len(sent_log) :
         /\ i < j
         /\ sent_log[i].user = last_op[2] /\ sent_log[i].label = "2h"
         /\ sent_log[i].race_id = 1 /\ sent_log[i].auto /\ sent_log[i].ok
         /\ sent_log[j].user = last_op[2] /\ sent_log[j].label = "manual"
         /\ sent_log[j].race_id = 1 /\ sent_log[j].variant = "normal"
         /\ sent_log[j].t >= notify_history[<< NoUser, 1, "2h" >>]

NoSaveCompleted(saves) == \A i \in 1..Len(saves) : saves[i] # "ok"

\* C14: a save of the user file or of the calendar file that does not reach
\* the rename (it raises, or the process dies while the temp file is being
\* written or before the rename) leaves the target file as it was, so a load
\* returns the old data; after a save that completes the temp file is gone
\* and the target holds exactly the collection in memory.
C14_AtomicSaves ==
    [][ (ops' = ops + 1 /\ last_save' # << >>)
        => /\ NoSaveCompleted(last_save')
              => /\ users_file' = users_file
                 /\ LoadUsersData(<< >>, users_file') = LoadUsersData(<< >>, users_file)
           /\ last_save'[Len(last_save')] = "ok"
              => /\ users_tmp' = NoTemp
                 /\ users_file'.exists
                 /\ DOMAIN users_file'.data = { StrKey(u) : u \in DOMAIN users_data' }
                 /\ ParseUsers(users_file'.data) = users_data' ]_vars
    /\ [][ (ops' = ops + 1 /\ last_op'[1] = "cmd_update")
           => /\ last_op'[4] # "ok"
                 => /\ calendar_file' = calendar_file
                    /\ LoadCalendarSilent(<< >>, calendar_file')
                         = LoadCalendarSilent(<< >>, calendar_file)
              /\ last_op'[4] = "ok"
                 => /\ calendar_tmp' = NoTemp
                    /\ calendar_file'.exists
                    /\ DOMAIN calendar_file'.data = { StrKey(r) : r \in DOMAIN race_calendar' }
                    /\ ParseCalendar(calendar_file'.data) = race_calendar' ]_vars

\* the process died between fsync and rename of a save, was started again and
\* loaded the user file: the finished temp file differs from the target, and
\* memory holds the target's records
C14_Witness ==
    /\ last_op[1] = "restart"
    /\ alive
    /\ users_tmp.exists /\ users_tmp.complete
    /\ users_file.exists
    /\ users_tmp.data # users_file.data
    /\ users_data = ParseUsers(users_file.data)
    /\ DOMAIN users_data # {}

SlotRejected(slot) == slot < 0 \/ slot > 1
HoursRejected(hours) ==
    hours # None /\ (hours < 20 * SecondsPerMinute \/ hours > 70 * SecondsPerHour)

\* C17: set_custom_notification with a slot outside 0..1, or with an offset
\* that is not null and below 20 min or above 70 h, returns False and leaves
\* the user map and the user file as they were (no record is created); with
\* a valid slot, 20 min and 70 h are accepted and stored.
C17_RejectedLeavesStateUnchanged ==
    [][ (ops' = ops + 1 /\ last_op'[1] = "set_custom_notification")
        => /\ (SlotRejected(last_op'[4]) \/ HoursRejected(last_op'[5]))
              => /\ last_op'[3] = 0
                 /\ users_data' = users_data
                 /\ users_file' = users_file
                 /\ alive'
           /\ ( /\ ~SlotRejected(last_op'[4])
                /\ last_op'[5] \in { 20 * SecondsPerMinute, 70 * SecondsPerHour }
                /\ alive' )
              => /\ last_op'[3] = 1
                 /\ users_data'[last_op'[2]].custom_notifications[last_op'[4] + 1]
                      = [ enabled |-> TRUE, hours_before |-> last_op'[5] ] ]_vars

\* a user without a record asked for a reminder 19 min before the deadline
\* in slot 0: refused, and the user still has no record
C17_Witness ==
    /\ last_op[1] = "set_custom_notification"
    /\ last_op[3] = 0
    /\ last_op[4] = 0
    /\ last_op[5] = 19 * SecondsPerMinute
    /\ last_op[2] \notin DOMAIN users_data
    /\ ~users_file.exists

\* C18: after mark_quali_done, reset_user_status, toggle_notification or
\* set_custom_notification has returned, the user file holds the user map.
C18_DurableWhenReturned ==
    ( /\ alive
      /\ last_op[1] \in { "mark_quali_done", "reset_user_status", "toggle_notification",
                          "set_custom_notification" } )
    => /\ users_file.exists \/ DOMAIN users_data = {}
       /\ ParseUsers(users_file.data) = users_data

\* C19: when get_user_status(u) has returned, u's toggle map has every
\* category.
C19_ToggleMapComplete ==
    [][ (ops' = ops + 1 /\ last_op'[1] = "cmd_start" /\ alive')
        => /\ last_op'[2] \in DOMAIN users_data'
           /\ "notifications" \in DOMAIN users_data'[last_op'[2]]
           /\ DOMAIN users_data'[last_op'[2]].notifications = Categories ]_vars

\* C20: every record with a custom list has exactly 2 slots, each enabled
\* slot with an offset from 20 min to 70 h, each slot without offset disabled.
C20_CustomListWellFormed ==
    \A u \in DOMAIN users_data :
        "custom_notifications" \in DOMAIN users_data[u]
        => /\ Len(users_data[u].custom_notifications) = 2
           /\ \A i \in 1..Len(users_data[u].custom_notifications) :
                LET slot == users_data[u].custom_notifications[i]
                IN /\ slot.enabled
                      => /\ slot.hours_before # None
                         /\ slot.hours_before >= 20 * SecondsPerMinute
                         /\ slot.hours_before <= 70 * SecondsPerHour
                   /\ slot.hours_before = None => ~slot.enabled

\* user 3, whose record the bot created, holds a 20 min reminder in slot 0
\* after a second call, for slot 2, was refused
C20_Witness ==
    /\ last_op[1] = "set_custom_notification"
    /\ last_op[2] = 3
    /\ last_op[3] = 0
    /\ last_op[4] = 2
    /\ 3 \in DOMAIN users_data
    /\ users_data[3].custom_notifications
         = << [ enabled |-> TRUE, hours_before |-> 20 * SecondsPerMinute ],
              [ enabled |-> FALSE, hours_before |-> None ] >>

\* C15: with a restart (notify_history and last_api_check_time reset, files
\* kept), no notification delivered to a user for a race and a trigger is
\* delivered to that user again.
C15_NoDuplicateAcrossRestart ==
    \A i, j \in 1..Len(sent_log) :
        ( /\ i < j
          /\ sent_log[i].auto /\ sent_log[i].ok
          /\ sent_log[j].auto /\ sent_log[j].ok
          /\ sent_log[i].user = sent_log[j].user
          /\ sent_log[i].race_id = sent_log[j].race_id
          /\ sent_log[i].label = sent_log[j].label )
        => sent_log[j].t < boot \/ sent_log[i].t >= boot

UserFields == { "notifications", "custom_notifications" }

\* C21: get_user_status(u) for a user without a record creates one with a
\* null completed_quali, every toggle on and two empty custom slots, with
\* exactly one save; for a record that lacks fields it adds every missing
\* field with its default, keeps the others, with exactly one save; for a
\* record with every field it saves nothing and changes nothing.
C21_GetOrCreateSavesOnce ==
    [][ (ops' = ops + 1 /\ last_op'[1] = "cmd_start")
        => LET u == last_op'[2]
           IN /\ u \notin DOMAIN users_data
                 => /\ Len(last_save') = 1
                    /\ DOMAIN users_data' = DOMAIN users_data \cup {u}
                    /\ users_data'[u].completed_quali = None
                    /\ users_data'[u].notifications = [ c \in Categories |-> TRUE ]
                    /\ users_data'[u].custom_notifications
                         = << [ enabled |-> FALSE, hours_before |-> None ],
                              [ enabled |-> FALSE, hours_before |-> None ] >>
              /\ (u \in DOMAIN users_data /\ ~(UserFields \subseteq DOMAIN users_data[u]))
                 => /\ Len(last_save') = 1
                    /\ UserFields \subseteq DOMAIN users_data'[u]
                    /\ \A f \in DOMAIN users_data[u] : users_data'[u][f] = users_data[u][f]
                    /\ "notifications" \notin DOMAIN users_data[u]
                       => users_data'[u].notifications = [ c \in Categories |-> TRUE ]
                    /\ "custom_notifications" \notin DOMAIN users_data[u]
                       => users_data'[u].custom_notifications
                            = << [ enabled |-> FALSE, hours_before |-> None ],
                                 [ enabled |-> FALSE, hours_before |-> None ] >>
              /\ (u \in DOMAIN users_data /\ UserFields \subseteq DOMAIN users_data[u])
                 => /\ last_save' = << >>
                    /\ users_data' = users_data
                    /\ users_file' = users_file ]_vars

\* /start of user 2, whose stored record had neither toggles nor custom
\* reminders: both were added and the one save reached the file
C21_Witness ==
    /\ last_op = << "cmd_start", 2, None >>
    /\ ops = 1
    /\ last_save = << "ok" >>
    /\ users_data[2] = [ completed_quali |-> None,
                         notifications |-> [ c \in Categories |-> TRUE ],
                         custom_notifications
                           |-> << [ enabled |-> FALSE, hours_before |-> None ],
                                  [ enabled |-> FALSE, hours_before |-> None ] >> ]
    /\ users_file = FileOf(DumpUsers(users_data))
    /\ 1 \in DOMAIN users_data
    /\ "notifications" \in DOMAIN users_data[1]
    /\ "race_results" \notin DOMAIN users_data[1].notifications

C24_InvalidRaceIdRejected ==
    [][ ( /\ ops' = ops + 1
          /\ last_op'[1] = "handle_quali_done"
          /\ last_op'[5] \in { << "done", "invalid" >>, << "done", "" >> } )
        => /\ last_op'[4] = << "invalid race id" >>
           /\ users_data' = users_data
           /\ users_file' = users_file
           /\ users_tmp' = users_tmp
           /\ last_save' = << >> ]_vars

\* user 1, whose stored marker is race 1, pressed a button carrying
\* "done_": refused, the marker is still race 1
C24_Witness ==
    /\ last_op[1] = "handle_quali_done"
    /\ last_op[2] = 1
    /\ last_op[5] = << "done", "" >>
    /\ last_op[4] = << "invalid race id" >>
    /\ 1 \in DOMAIN users_data
    /\ users_data[1].completed_quali = 1
    /\ users_file.exists

FollowUpLabels == { "race_replay", "race_results" }

LastRace == CHOOSE r \in DOMAIN race_calendar : \A q \in DOMAIN race_calendar : q <= r

\* C29: a race_replay or race_results job for race e is put in a due list
\* only by a tick that also puts the opens_soon job of race e + 1 there, and
\* at most once per race; so none is ever emitted for the last race, and no
\* opens_soon for race 1.
C29_FollowUpsRideOnOpens ==
    /\ [][ \A e \in NewlyEmitted :
             e[1][3] \in FollowUpLabels
             => << HistoryKey(NoUser, e[1][2] + 1, "opens_soon"), e[2] >> \in NewlyEmitted ]_vars
    /\ [](\A r \in DOMAIN race_calendar, l \in FollowUpLabels :
             /\ EmittedCount(HistoryKey(NoUser, r, l)) <= 1
             /\ r = LastRace => EmittedCount(HistoryKey(NoUser, r, l)) = 0)
    /\ [](EmittedCount(HistoryKey(NoUser, 1, "opens_soon")) = 0)

\* the probe confirmed race 2: one tick emitted opens_soon for race 2 with
\* the replay and the results of race 1, and all three were delivered
C29_Witness ==
    /\ \E t \in EmittedAt(HistoryKey(NoUser, 2, "opens_soon")) :
         /\ \E i \in 1..Len(probe_log) : probe_log[i] = t
         /\ t \in EmittedAt(HistoryKey(NoUser, 1, "race_replay"))
         /\ t \in EmittedAt(HistoryKey(NoUser, 1, "race_results"))
         /\ t - race_calendar[1].date <= API_CHECK_END_SECONDS
    /\ HistoryKey(NoUser, 1, "race_replay") \in DOMAIN notify_history
    /\ HistoryKey(NoUser, 1, "race_results") \in DOMAIN notify_history
    /\ HistoryKey(NoUser, 2, "opens_soon") \in DOMAIN notify_history

\* nobody is sent the same (race, label) by the scheduler twice
NoUserNotifiedTwice ==
    \A i, j \in DOMAIN sent_log :
        ( /\ i < j
          /\ sent_log[i].auto /\ sent_log[j].auto
          /\ sent_log[i].ok /\ sent_log[j].ok
          /\ sent_log[i].user = sent_log[j].user
          /\ sent_log[i].race_id = sent_log[j].race_id )
        => sent_log[i].label # sent_log[j].label

\* C25: whatever handler runs while a broadcast job is being delivered, a
\* registration included, no tick ends in the except branch while it
\* delivers (the job is not aborted, its dedup record is written), and
\* nobody is sent the same (race, label) twice.
C25_DeliverySurvivesRegistration ==
    /\ \A i \in DOMAIN tick_errors : tick_errors[i][1] # "send"
    /\ NoUserNotifiedTwice

\* C30: a step of the scheduler task (any step that is not a handler's, that
\* is, leaves the count of handler runs alone) changes no user record in
\* memory and does not write the user file.
C30_SchedulerOnlyReadsUsers ==
    [][ ops' = ops => ( users_data' = users_data /\ users_file' = users_file ) ]_vars

\* C22: once the calendar has been replaced, a decide phase leaves no dedup
\* entry whose race id the calendar does not hold.
C22_StaleEntriesDropped ==
    [][ (pc = "decide" /\ ops' = ops)
            => \A k \in DOMAIN notify_history' : k[2] \in DOMAIN race_calendar' ]_vars

\* the keys of the closing reminders that are due at t and held back by hist
SuppressedClosing(t, cal, hist) ==
    LET keys(jobs) == { jobs[i].history_key : i \in DOMAIN jobs }
    IN keys(CheckQualiClosing(t, cal, << >>)) \ keys(CheckQualiClosing(t, cal, hist))

\* the record of key k was written inside the window that key has for the
\* race the calendar now holds under the key's id
WrittenForThisRace(k, cal, hist) ==
    \E i \in DOMAIN NOTIFICATION_WINDOWS :
        LET w == NOTIFICATION_WINDOWS[i]
        IN /\ w.label = k[3]
           /\ WithinTolerance(cal[k[2]].quali_close - hist[k], w.target, w.tol)

\* C27: when a tick is about to decide, a closing reminder that is due is
\* held back only by a record written for the race that holds the id now,
\* never by one written for the race that held the id before a refresh.
C27_RenumberedNotSuppressed ==
    (pc = "decide" /\ now <= stop)
        => \A k \in SuppressedClosing(now, race_calendar, notify_history) :
               WrittenForThisRace(k, race_calendar, notify_history)

\* C26: the decide phase of a tick that awaited the probe does not fail,
\* and its due list is the one a single calendar gives: the calendar the
\* tick started with, or the one in place when the phase ends.
C26_OneGenerationPerTick ==
    [][ (pc = "probe" /\ pc' # "probe")
            => /\ tick_errors' = tick_errors
               /\ \E G \in { awaiting, race_calendar' } :
                     \E api_result \in ProbeAnswers(now, G) :
                         notifications_to_send'
                             = DueList(now, G, notify_history, users_data', api_result) ]_vars

Received(u, r, label) ==
    Cardinality({ i \in DOMAIN sent_log :
                    /\ sent_log[i].auto /\ sent_log[i].ok
                    /\ sent_log[i].user = u
                    /\ sent_log[i].race_id = r
                    /\ sent_log[i].label = label })

\* the triggers of C32 with their offsets and tolerances
C32Triggers ==
    { [ label |-> "2h", target |-> 2 * SecondsPerHour, tol |-> 5 * SecondsPerMinute ],
      [ label |-> "custom_1", target |-> 90 * SecondsPerMinute,
        tol |-> CUSTOM_NOTIF_TOLERANCE_MIN * SecondsPerMinute ],
      [ label |-> "10min", target |-> 10 * SecondsPerMinute, tol |-> 2 * SecondsPerMinute ] }

\* C32: user 1 ('2h' and '10min' enabled, first custom slot 1.5 h) never
\* gets one of the three notifications of race 1 twice, and has got it once
\* as soon as a tick that fell into its window is over: the record of one
\* trigger holds back no other trigger.
C32_TriggersIndependent ==
    \A w \in C32Triggers :
        /\ Received(1, 1, w.label) <= 1
        /\ ( /\ pc = "decide"
             /\ now > boot
             /\ WithinTolerance(race_calendar[1].quali_close - (now - next_interval),
                                w.target, w.tol) )
           => Received(1, 1, w.label) = 1

\* ticks fell into all three windows and user 1 has the three notifications
C32_Witness ==
    /\ pc = "decide"
    /\ \A w \in C32Triggers : Received(1, 1, w.label) = 1
    /\ { HistoryKey(NoUser, 1, "2h"), HistoryKey(1, 1, "custom_1"),
         HistoryKey(NoUser, 1, "10min") } \subseteq DOMAIN notify_history

\* the entries of the dedup map a tick at t has to keep
YoungerThanRetention(t, hist) ==
    { k \in DOMAIN hist : hist[k] > t - NOTIFICATION_HISTORY_RETENTION_DAYS * SecondsPerDay }

\* C33: the decide phase of a tick at `now` leaves in the dedup map the
\* entries stamped later than now - 30 days, unchanged, and no other; with a
\* static calendar no key is put in a due list a second time, pruned or not.
C33_PruneExactlyOld ==
    /\ [][ IsDecideStep
              => /\ DOMAIN notify_history' = YoungerThanRetention(now, notify_history)
                 /\ \A k \in DOMAIN notify_history' : notify_history'[k] = notify_history[k]
          ]_vars
    /\ [](\A i \in DOMAIN emitted : EmittedCount(emitted[i][1]) = 1)

\* records of race 1 have been pruned, others are still kept, and every job
\* went out once
C33_Witness ==
    /\ pc = "decide"
    /\ HistoryKey(NoUser, 1, "48h") \notin DOMAIN notify_history
    /\ EmittedCount(HistoryKey(NoUser, 1, "48h")) = 1
    /\ HistoryKey(NoUser, 1, "10min") \in DOMAIN notify_history
    /\ now > NOTIFICATION_HISTORY_RETENTION_DAYS * SecondsPerDay

\* C34: while a user's "Disable All" is the last thing a handler did, every
\* known category is disabled for that user and the scheduler has sent the
\* user nothing since but custom reminders.
C34_DisableAllSilences ==
    \A u \in DOMAIN users_data :
        ( /\ alive
          /\ last_op[1] = "toggle_all"
          /\ last_op[2] = u
          /\ last_op[4] = FALSE )
        => /\ \A c \in Categories : ~IsNotificationEnabled(users_data, u, c)
           /\ \A i \in DOMAIN sent_log :
                 ( /\ i > last_op[5]
                   /\ sent_log[i].auto
                   /\ sent_log[i].user = u )
                 => sent_log[i].label \notin Categories

\* C35: the record of a job is written when its delivery pass ends, whoever
\* received it or not, and no transport call is made for a trigger after its
\* record was written: a user who resets the marker or turns the category on
\* after the pass gets nothing for that trigger.
IsFinishJobStep == pc = "send" /\ notifications_to_send' = Tail(notifications_to_send)

C35_RecordedWhoeverReceived ==
    /\ [][ IsFinishJobStep =>
              LET key == Head(notifications_to_send).history_key
              IN /\ key \in DOMAIN notify_history'
                 /\ notify_history'[key] = now ]_vars
    /\ [](\A i \in DOMAIN sent_log :
            ( sent_log[i].auto /\ CallKey(sent_log[i]) \in DOMAIN notify_history )
            => sent_log[i].t <= notify_history[CallKey(sent_log[i])])

\* nobody received the 2h reminder of race 1 (user 1 had the race marked done,
\* the call for user 2 failed), user 1 then reset the marker, and the next
\* tick is still inside the window
C35_Witness ==
    LET key == HistoryKey(NoUser, 1, "2h")
    IN /\ key \in DOMAIN notify_history
       /\ \A u \in DOMAIN users_data : Received(u, 1, "2h") = 0
       /\ last_op = << "reset_user_status", 1, None >>
       /\ users_data[1].completed_quali = None
       /\ IsNotificationEnabled(users_data, 1, "2h")
       /\ now > notify_history[key]
       /\ pc = "decide"
       /\ WithinTolerance(SeasonCalendar[1].quali_close - now,
                          NOTIFICATION_WINDOWS[3].target, NOTIFICATION_WINDOWS[3].tol)

\* C36: a custom reminder is recorded under (user, race, slot): once slot s
\* has fired for a race, no other offset put into slot s fires for that race
\* again, while the other slot still fires when a tick finds it due.
SlotKey(u, r, s) == << u, r, IF s = 1 THEN "custom_1" ELSE "custom_2" >>

SlotDue(u, r, s) ==
    LET c == users_data[u].custom_notifications[s]
    IN /\ c.enabled
       /\ c.hours_before # None
       /\ race_calendar[r].quali_close > now
       /\ WithinTolerance(race_calendar[r].quali_close - now, c.hours_before,
                          CUSTOM_NOTIF_TOLERANCE_MIN * SecondsPerMinute)

C36_KeyedBySlot ==
    /\ [](\A u \in DOMAIN users_data, r \in DOMAIN race_calendar, s \in 1..CUSTOM_NOTIF_MAX_SLOTS :
            EmittedCount(SlotKey(u, r, s)) <= 1)
    /\ [][ IsDecideStep =>
              \A u \in DOMAIN users_data, r \in DOMAIN race_calendar,
                 s \in 1..CUSTOM_NOTIF_MAX_SLOTS :
                  ( SlotDue(u, r, s) /\ SlotKey(u, r, s) \notin DOMAIN notify_history )
                  => << SlotKey(u, r, s), now >> \in NewlyEmitted ]_vars

\* slot 1 of user 1 fired for race 1 at its 2 h offset, the user then put
\* 1 h 50 min into the same slot, and the next tick lies in the new window
C36_Witness ==
    /\ pc = "decide"
    /\ SlotKey(1, 1, 1) \in DOMAIN notify_history
    /\ EmittedCount(SlotKey(1, 1, 1)) = 1
    /\ Received(1, 1, "custom_1") = 1
    /\ last_op = << "set_custom_notification", 1, 1, 0, 110 * SecondsPerMinute >>
    /\ users_data[1].custom_notifications[1] = Slot(110 * SecondsPerMinute)
    /\ now > notify_history[SlotKey(1, 1, 1)]
    /\ SlotDue(1, 1, 1)

\* C37: the button "reset_<r>" clears the user's marker only if the marker
\* is r; pressed for another race it leaves the marker as it was.
C37_ResetOnlyOwnRace ==
    [][ \A u \in DOMAIN users_data :
          ( /\ ops' = ops + 1
            /\ last_op'[1] = "handle_reset"
            /\ last_op'[2] = u
            /\ last_op'[3] # None )
          => users_data'[u].completed_quali =
                IF users_data[u].completed_quali = last_op'[3]
                THEN None ELSE users_data[u].completed_quali ]_vars

\* C38: when /update sent by an admin has run to its end, every known user's
\* marker is null, whether the calendar was replaced or not; sent by anyone
\* else it changes neither the calendar nor any user record, in memory or
\* on disk.
C38_UpdateResetsEveryone ==
    [][ ( /\ ops' = ops + 1
          /\ last_op'[1] = "cmd_update"
          /\ alive' )
        => IF last_op'[2] \in StoreUsers \ ADMIN_USER_IDS
           THEN /\ race_calendar' = race_calendar
                /\ users_data' = users_data
                /\ << users_file, users_tmp, calendar_file, calendar_tmp >>' =
                      << users_file, users_tmp, calendar_file, calendar_tmp >>
           ELSE /\ DOMAIN users_data' = DOMAIN users_data
                /\ \A u \in DOMAIN users_data' : users_data'[u].completed_quali = None ]_vars

\* the refresh failed and so did the saves, yet the marker the file still
\* shows for user 1 is gone from memory, for user 1 and everybody else
C38_Witness ==
    /\ alive
    /\ last_op[1] = "cmd_update"
    /\ last_op[2] = NoUser
    /\ last_op[4] \in { "raises", "not saved" }
    /\ race_calendar = SeasonCalendar
    /\ Cardinality(DOMAIN users_data) >= 2
    /\ users_file.exists
    /\ StrKey(1) \in DOMAIN users_file.data
    /\ users_file.data[StrKey(1)].completed_quali = 1
    /\ \A u \in DOMAIN users_data : users_data[u].completed_quali = None

====
